---- MODULE Spec2Model ----
(***************************************************************************)
(* Backend orchestration layer of CognitiaOS (server.ts): the retrying     *)
(* invoker withRetry, the POST /api/analyze handler with its response      *)
(* normalisation and its error mapping.                                    *)
(*                                                                         *)
(* JavaScript values are tagged records: [t |-> "undefined"],              *)
(* [t |-> "null"], [t |-> "bool", v], [t |-> "num", v], [t |-> "str", v]   *)
(* with v a sequence of one-character strings, [t |-> "arr", v, f] with v  *)
(* the elements and f the own properties, [t |-> "obj", f] with f the own  *)
(* properties (a function from property names to values).                  *)
(***************************************************************************)
EXTENDS Integers, Sequences, FiniteSets, TLC

\* ------------------------------------------------------------------------
\* JavaScript values
\* ------------------------------------------------------------------------
Undefined == [t |-> "undefined"]

Null == [t |-> "null"]

Bool(b) == [t |-> "bool", v |-> b]

Num(n) == [t |-> "num", v |-> n]

Str(s) == [t |-> "str", v |-> s]

NoProps == <<>>

Arr(elems) == [t |-> "arr", v |-> elems, f |-> NoProps]

Obj(props) == [t |-> "obj", f |-> props]

\* ToBoolean: undefined, null, false, 0 and "" are falsy, everything else truthy
Truthy(x) ==
  CASE x.t = "undefined" -> FALSE
    [] x.t = "null" -> FALSE
    [] x.t = "bool" -> x.v
    [] x.t = "num" -> x.v # 0
    [] x.t = "str" -> x.v # <<>>
    [] OTHER -> TRUE

\* a || b
JsOr(a, b) == IF Truthy(a) THEN a ELSE b

\* a && b
JsAnd(a, b) == IF Truthy(a) THEN b ELSE a

\* x.p for an object or array x (undefined when x has no own property p)
Get(x, p) ==
  IF x.t \in {"obj", "arr"} /\ p \in DOMAIN x.f THEN x.f[p] ELSE Undefined

\* x.p = val for an object or array x
SetProp(x, p, val) ==
  [x EXCEPT !.f = [q \in (DOMAIN x.f) \cup {p} |-> IF q = p THEN val ELSE x.f[q]]]

\* ------------------------------------------------------------------------
\* Strings (sequences of one-character strings)
\* ------------------------------------------------------------------------
UpperToLower ==
  [A |-> "a", B |-> "b", C |-> "c", D |-> "d", E |-> "e", F |-> "f", G |-> "g",
   H |-> "h", I |-> "i", J |-> "j", K |-> "k", L |-> "l", M |-> "m", N |-> "n",
   O |-> "o", P |-> "p", Q |-> "q", R |-> "r", S |-> "s", T |-> "t", U |-> "u",
   V |-> "v", W |-> "w", X |-> "x", Y |-> "y", Z |-> "z"]

\* String.prototype.toLowerCase
toLowerCase(s) ==
  [k \in 1..Len(s) |-> IF s[k] \in DOMAIN UpperToLower THEN UpperToLower[s[k]] ELSE s[k]]

\* String.prototype.includes
includes(s, sub) ==
  \E k \in 0..(Len(s) - Len(sub)) : SubSeq(s, k + 1, k + Len(sub)) = sub

\* String.prototype.endsWith
endsWith(s, suffix) ==
  Len(suffix) <= Len(s) /\ SubSeq(s, Len(s) - Len(suffix) + 1, Len(s)) = suffix

WhiteSpace == {" ", "\t", "\n"}

RECURSIVE trimStart(_)
trimStart(s) ==
  IF s # <<>> /\ Head(s) \in WhiteSpace THEN trimStart(Tail(s)) ELSE s

RECURSIVE trimEnd(_)
trimEnd(s) ==
  IF s # <<>> /\ s[Len(s)] \in WhiteSpace THEN trimEnd(SubSeq(s, 1, Len(s) - 1)) ELSE s

\* String.prototype.trim
trim(s) == trimEnd(trimStart(s))

\* ------------------------------------------------------------------------
\* String literals of server.ts
\* ------------------------------------------------------------------------
Str_503 == <<"5", "0", "3">>
Str_429 == <<"4", "2", "9">>
Str_demand == <<"d", "e", "m", "a", "n", "d">>
Str_rate_exceeded == <<"r", "a", "t", "e", " ", "e", "x", "c", "e", "e", "d", "e", "d">>
Str_quota == <<"q", "u", "o", "t", "a">>
Str_api_key_not_valid == <<"a", "p", "i", " ", "k", "e", "y", " ", "n", "o", "t", " ", "v", "a", "l", "i", "d">>
Str_DatasetRequired == <<"D", "a", "t", "a", "s", "e", "t", " ", "i", "s", " ", "r", "e", "q", "u", "i", "r", "e", "d">>
Str_KeyNotConfigured == <<"G", "e", "m", "i", "n", "i", " ", "A", "P", "I", " ", "k", "e", "y", " ", "i", "s", " ", "n", "o", "t", " ", "c", "o", "n", "f", "i", "g", "u", "r", "e", "d", ".", " ", "P", "l", "e", "a", "s", "e", " ", "s", "e", "t", " ", "C", "O", "G", "A", "P", "I", "3", " ", "o", "r", " ", "G", "E", "M", "I", "N", "I", "_", "A", "P", "I", "_", "K", "E", "Y", " ", "i", "n", " ", "t", "h", "e", " ", "e", "n", "v", "i", "r", "o", "n", "m", "e", "n", "t", " ", "v", "a", "r", "i", "a", "b", "l", "e", "s", ".">>
Str_EmptyResponse == <<"M", "o", "d", "e", "l", " ", "r", "e", "t", "u", "r", "n", "e", "d", " ", "e", "m", "p", "t", "y", " ", "r", "e", "s", "p", "o", "n", "s", "e">>
Str_KeyInvalidHead == <<"T", "h", "e", " ", "G", "e", "m", "i", "n", "i", " ", "A", "P", "I", " ", "k", "e", "y", " ", "i", "s", " ", "i", "n", "v", "a", "l", "i", "d", ".", " ", "C", "u", "r", "r", "e", "n", "t", " ", "k", "e", "y", " ", "s", "o", "u", "r", "c", "e", ":", " ">>
Str_KeyInvalidTail == <<".", " ", "P", "l", "e", "a", "s", "e", " ", "u", "p", "d", "a", "t", "e", " ", "y", "o", "u", "r", " ", "e", "n", "v", "i", "r", "o", "n", "m", "e", "n", "t", " ", "v", "a", "r", "i", "a", "b", "l", "e", "s", " ", "i", "n", " ", "A", "I", " ", "S", "t", "u", "d", "i", "o", ".">>
Str_RateLimit == <<"G", "e", "m", "i", "n", "i", " ", "A", "P", "I", " ", "r", "a", "t", "e", " ", "l", "i", "m", "i", "t", " ", "e", "x", "c", "e", "e", "d", "e", "d", ".", " ", "T", "h", "e", " ", "s", "y", "s", "t", "e", "m", " ", "i", "s", " ", "c", "u", "r", "r", "e", "n", "t", "l", "y", " ", "u", "n", "d", "e", "r", " ", "h", "i", "g", "h", " ", "l", "o", "a", "d", ".", " ", "P", "l", "e", "a", "s", "e", " ", "w", "a", "i", "t", " ", "a", " ", "f", "e", "w", " ", "m", "o", "m", "e", "n", "t", "s", " ", "a", "n", "d", " ", "t", "r", "y", " ", "a", "g", "a", "i", "n", ".">>
Str_FailedToAnalyze == <<"F", "a", "i", "l", "e", "d", " ", "t", "o", " ", "a", "n", "a", "l", "y", "z", "e", " ", "d", "a", "t", "a">>
Str_COGAPI3 == <<"C", "O", "G", "A", "P", "I", "3">>
Str_GEMINI_API_KEY == <<"G", "E", "M", "I", "N", "I", "_", "A", "P", "I", "_", "K", "E", "Y">>
Str_Unknown == <<"U", "n", "k", "n", "o", "w", "n">>
Str_RiskDistribution == <<"R", "i", "s", "k", " ", "D", "i", "s", "t", "r", "i", "b", "u", "t", "i", "o", "n">>
Str_OperationalEfficiency == <<"O", "p", "e", "r", "a", "t", "i", "o", "n", "a", "l", " ", "E", "f", "f", "i", "c", "i", "e", "n", "c", "y">>
Str_GeographicOpportunityMatrix == <<"G", "e", "o", "g", "r", "a", "p", "h", "i", "c", " ", "O", "p", "p", "o", "r", "t", "u", "n", "i", "t", "y", " ", "M", "a", "t", "r", "i", "x">>
Str_NoCodeProvided == <<"N", "o", " ", "c", "o", "d", "e", " ", "p", "r", "o", "v", "i", "d", "e", "d">>
Str_AuthenticationFailed == <<"A", "u", "t", "h", "e", "n", "t", "i", "c", "a", "t", "i", "o", "n", " ", "f", "a", "i", "l", "e", "d">>
Str_userIdRequired == <<"u", "s", "e", "r", "I", "d", " ", "r", "e", "q", "u", "i", "r", "e", "d">>
Str_OAUTH_AUTH_SUCCESS == <<"O", "A", "U", "T", "H", "_", "A", "U", "T", "H", "_", "S", "U", "C", "C", "E", "S", "S">>

\* the origin the application is served from
AppOrigin == <<"h", "t", "t", "p", "s", ":", "/", "/", "a", ".", "r", "u", "n", ".", "a", "p", "p">>

\* the origin of the application on a development machine
LocalOrigin == <<"h", "t", "t", "p", ":", "/", "/", "l", "o", "c", "a", "l", "h", "o", "s", "t", ":", "3", "0", "0", "0">>

\* origins of other sites
OtherRunApp == <<"h", "t", "t", "p", "s", ":", "/", "/", "b", ".", "r", "u", "n", ".", "a", "p", "p">>
LocalhostLookalike == <<"h", "t", "t", "p", "s", ":", "/", "/", "l", "o", "c", "a", "l", "h", "o", "s", "t", ".", "e", ".", "c", "o", "m">>
OtherOrigin == <<"h", "t", "t", "p", "s", ":", "/", "/", "e", ".", "c", "o", "m">>

Str_run_app == <<".", "r", "u", "n", ".", "a", "p", "p">>
Str_localhost == <<"l", "o", "c", "a", "l", "h", "o", "s", "t">>
Str_AppUrlNotSet == <<"A", "P", "P", "_", "U", "R", "L", " ", "e", "n", "v", "i", "r", "o", "n", "m", "e", "n", "t", " ", "v", "a", "r", "i", "a", "b", "l", "e", " ", "i", "s", " ", "n", "o", "t", " ", "s", "e", "t", ".">>
Str_ClientIdNotSet == <<"G", "O", "O", "G", "L", "E", "_", "C", "L", "I", "E", "N", "T", "_", "I", "D", " ", "e", "n", "v", "i", "r", "o", "n", "m", "e", "n", "t", " ", "v", "a", "r", "i", "a", "b", "l", "e", " ", "i", "s", " ", "n", "o", "t", " ", "s", "e", "t", ".">>
Str_rootUrl == <<"h", "t", "t", "p", "s", ":", "/", "/", "a", "c", "c", "o", "u", "n", "t", "s", ".", "g", "o", "o", "g", "l", "e", ".", "c", "o", "m", "/", "o", "/", "o", "a", "u", "t", "h", "2", "/", "v", "2", "/", "a", "u", "t", "h">>
Str_callbackPath == <<"/", "a", "u", "t", "h", "/", "g", "o", "o", "g", "l", "e", "/", "c", "a", "l", "l", "b", "a", "c", "k">>
Str_redirect_uri == <<"r", "e", "d", "i", "r", "e", "c", "t", "_", "u", "r", "i">>
Str_client_id == <<"c", "l", "i", "e", "n", "t", "_", "i", "d">>
Str_access_type == <<"a", "c", "c", "e", "s", "s", "_", "t", "y", "p", "e">>
Str_offline == <<"o", "f", "f", "l", "i", "n", "e">>
Str_response_type == <<"r", "e", "s", "p", "o", "n", "s", "e", "_", "t", "y", "p", "e">>
Str_code == <<"c", "o", "d", "e">>
Str_prompt == <<"p", "r", "o", "m", "p", "t">>
Str_consent == <<"c", "o", "n", "s", "e", "n", "t">>
Str_scope == <<"s", "c", "o", "p", "e">>
Str_scopes == <<"h", "t", "t", "p", "s", ":", "/", "/", "w", "w", "w", ".", "g", "o", "o", "g", "l", "e", "a", "p", "i", "s", ".", "c", "o", "m", "/", "a", "u", "t", "h", "/", "u", "s", "e", "r", "i", "n", "f", "o", ".", "p", "r", "o", "f", "i", "l", "e", " ", "h", "t", "t", "p", "s", ":", "/", "/", "w", "w", "w", ".", "g", "o", "o", "g", "l", "e", "a", "p", "i", "s", ".", "c", "o", "m", "/", "a", "u", "t", "h", "/", "u", "s", "e", "r", "i", "n", "f", "o", ".", "e", "m", "a", "i", "l">>
Str_undefined == <<"u", "n", "d", "e", "f", "i", "n", "e", "d">>

\* ------------------------------------------------------------------------
\* Messages of the errors the JavaScript runtime throws inside the handler
\* ------------------------------------------------------------------------
Str_SliceNotFunction == <<"d", "a", "t", "a", "s", "e", "t", ".", "s", "l", "i", "c", "e", " ", "i", "s", " ", "n", "o", "t", " ", "a", " ", "f", "u", "n", "c", "t", "i", "o", "n">>

Str_MapNotFunction == <<"d", "a", "t", "a", "s", "e", "t", ".", "s", "l", "i", "c", "e", "(", ".", ".", ".", ")", ".", "m", "a", "p", " ", "i", "s", " ", "n", "o", "t", " ", "a", " ", "f", "u", "n", "c", "t", "i", "o", "n">>

Str_UnexpectedToken == <<"U", "n", "e", "x", "p", "e", "c", "t", "e", "d", " ", "t", "o", "k", "e", "n", " ", "i", "n", " ", "J", "S", "O", "N", " ", "a", "t", " ", "p", "o", "s", "i", "t", "i", "o", "n", " ", "0">>

Str_UnexpectedTokenHead == <<"U", "n", "e", "x", "p", "e", "c", "t", "e", "d", " ", "t", "o", "k", "e", "n", ",", " ", "\"">>

Str_NotValidJSON == <<"\"", " ", "i", "s", " ", "n", "o", "t", " ", "v", "a", "l", "i", "d", " ", "J", "S", "O", "N">>

Str_CannotReadNull == <<"C", "a", "n", "n", "o", "t", " ", "r", "e", "a", "d", " ", "p", "r", "o", "p", "e", "r", "t", "i", "e", "s", " ", "o", "f", " ", "n", "u", "l", "l", " ", "(", "r", "e", "a", "d", "i", "n", "g", " ", "'", "d", "a", "t", "a", "_", "s", "u", "m", "m", "a", "r", "y", "'", ")">>

Str_CannotCreateProperty == <<"C", "a", "n", "n", "o", "t", " ", "c", "r", "e", "a", "t", "e", " ", "p", "r", "o", "p", "e", "r", "t", "y", " ", "'", "d", "a", "t", "a", "_", "s", "u", "m", "m", "a", "r", "y", "'", " ", "o", "n", " ">>

\* ------------------------------------------------------------------------
\* Errors
\* ------------------------------------------------------------------------
\* an error object: error.status, error.response (undefined or an object
\* with a status) and error.message
ErrorObj(status, response, message) ==
  [status |-> status, response |-> response, message |-> message]

Response(st) == Obj([status |-> Num(st)])

\* new Error(msg), and the runtime's SyntaxError / TypeError: no status, no response
NewError(msg) == ErrorObj(Undefined, Undefined, Str(msg))

\* failures the reasoning service (or its transport) can answer a call with
UpstreamErrors ==
  { ErrorObj(Num(429), Undefined, Str(<<"T", "o", "o", " ", "M", "a", "n", "y">>)),
    ErrorObj(Num(503), Undefined, Str(<<"U", "n", "a", "v", "a", "i", "l", "a", "b", "l", "e">>)),
    ErrorObj(Undefined, Response(429), Str(<<"f", "a", "i", "l", "e", "d">>)),
    ErrorObj(Num(0), Response(503), Undefined),
    ErrorObj(Undefined, Undefined, Str(<<"H", "T", "T", "P", " ", "5", "0", "3">>)),
    ErrorObj(Undefined, Undefined, Str(<<"g", "o", "t", " ", "4", "2", "9">>)),
    ErrorObj(Undefined, Undefined, Str(<<"H", "i", "g", "h", " ", "D", "e", "m", "a", "n", "d">>)),
    ErrorObj(Undefined, Undefined, Str(<<"R", "a", "t", "e", " ", "E", "x", "c", "e", "e", "d", "e", "d">>)),
    ErrorObj(Num(403), Undefined, Str(<<"Q", "u", "o", "t", "a">>)),
    ErrorObj(Num(400), Undefined, Str(<<"A", "P", "I", " ", "k", "e", "y", " ", "n", "o", "t", " ", "v", "a", "l", "i", "d">>)),
    ErrorObj(Num(500), Response(429), Str(<<"I", "n", "t", "e", "r", "n", "a", "l">>)),
    ErrorObj(Num(403), Undefined, Str(<<"r", "a", "t", "e", " ", "l", "i", "m", "i", "t">>)),
    ErrorObj(Undefined, Undefined, Undefined) }

\* const status = error.status || (error.response && error.response.status)
statusOf(error) == JsOr(error.status, JsAnd(error.response, Get(error.response, "status")))

\* const message = error.message?.toLowerCase() || ""
messageOf(error) ==
  IF error.message.t = "str" /\ error.message.v # <<>>
  THEN toLowerCase(error.message.v)
  ELSE <<>>

\* ------------------------------------------------------------------------
\* withRetry
\* ------------------------------------------------------------------------
maxRetries == 5

baseDelay == 2000

\* a variant of isRetryable that tests the message as thrown, not lower-cased
isRetryable_caseSensitive(error) ==
  LET status == statusOf(error)
      message == IF error.message.t = "str" THEN error.message.v ELSE <<>>
  IN  \/ status = Num(503)
      \/ status = Num(429)
      \/ includes(message, Str_503)
      \/ includes(message, Str_429)
      \/ includes(message, Str_demand)
      \/ includes(message, Str_rate_exceeded)
      \/ includes(message, Str_quota)

\* the condition of the retry branch of withRetry's catch block
isRetryable(error) ==
  LET status == statusOf(error)
      message == messageOf(error)
  IN  \/ status = Num(503)
      \/ status = Num(429)
      \/ includes(message, Str_503)
      \/ includes(message, Str_429)
      \/ includes(message, Str_demand)
      \/ includes(message, Str_rate_exceeded)
      \/ includes(message, Str_quota)

\* a variant of delayOf with a linear backoff
delayOf_linear(n) == baseDelay * (n + 1)

\* const delay = baseDelay * Math.pow(2, i)
delayOf(n) == baseDelay * (2 ^ n)

\* a variant of recordError that keeps the first error observed
recordError_first(previous, error) == IF previous = Undefined THEN error ELSE previous

\* lastError = error
recordError(previous, error) == error

\* a variant of loopContinues that is off by one
loopContinues_inclusive(n) == n <= maxRetries

\* the loop condition i < maxRetries
loopContinues(n) == n < maxRetries

\* ------------------------------------------------------------------------
\* Response normalisation of POST /api/analyze
\* ------------------------------------------------------------------------
\* the fields the handler fills, in the order of its if-statements
DefaultableFields ==
  <<"data_summary", "insights", "anomalies", "risk_analysis", "recommendations",
    "risk_heatmap", "operational_efficiency", "geographic_matrix">>

\* the top-level fields of an AnalysisResult the handler never touches
PassThroughFields == {"visualizations", "forecast", "strategic_growth", "market_expansion"}

AllFields == {DefaultableFields[k] : k \in 1..Len(DefaultableFields)} \cup PassThroughFields

\* the value the handler assigns to an empty field
defaultOf(field) ==
  CASE field = "data_summary" ->
         Obj([detected_entities |-> Arr(<<>>), key_metrics |-> Arr(<<>>), relationships |-> Arr(<<>>)])
    [] field = "risk_heatmap" ->
         Obj([title |-> Str(Str_RiskDistribution), data |-> Arr(<<>>)])
    [] field = "operational_efficiency" ->
         Obj([title |-> Str(Str_OperationalEfficiency), metrics |-> Arr(<<>>)])
    [] field = "geographic_matrix" ->
         Obj([title |-> Str(Str_GeographicOpportunityMatrix), data |-> Arr(<<>>)])
    [] OTHER -> Arr(<<>>)

\* a variant of needsDefault that fills absent fields only
needsDefault_absentOnly(result, field) == Get(result, field) = Undefined

\* the guard of each fill: !result.field
needsDefault(result, field) == ~Truthy(Get(result, field))

\* if (!result.field) result.field = <default>
fillField(result, field) ==
  IF needsDefault(result, field) THEN SetProp(result, field, defaultOf(field)) ELSE result

RECURSIVE fillFields(_, _)
fillFields(result, fields) ==
  IF fields = <<>> THEN result
  ELSE fillFields(fillField(result, Head(fields)), Tail(fields))

\* the eight fills applied to a parsed object or array
normalize(result) == fillFields(result, DefaultableFields)

\* how the runtime names a primitive in "Cannot create property ... on ..."
reprOf(prim) ==
  IF prim.t = "str"
  THEN <<"s", "t", "r", "i", "n", "g", " ", "'">> \o prim.v \o <<"'">>
  ELSE <<"n", "u", "m", "b", "e", "r">>

\* response.text that is the JSON serialisation of doc
JsonText(doc) == [t |-> "json", doc |-> doc]

\* a variant of JSONparse that answers an empty object for a text that does not parse
JSONparse_lenient(text, echo) ==
  [threw |-> FALSE, value |-> IF text.t = "json" THEN text.doc ELSE Obj(NoProps)]

\* JSON.parse(text): the parsed value, or the SyntaxError it throws; the
\* message of the SyntaxError depends on the engine version: newer engines
\* quote the offending text in it (echo)
JSONparse(text, echo) ==
  IF text.t = "json"
  THEN [threw |-> FALSE, value |-> text.doc]
  ELSE [threw |-> TRUE,
        error |-> NewError(IF echo
                           THEN Str_UnexpectedTokenHead \o text.v \o Str_NotValidJSON
                           ELSE Str_UnexpectedToken)]

\* res.json(result) as the client reads it back: own properties set on an
\* array are not serialised
resJson(result) == IF result.t = "arr" THEN Arr(result.v) ELSE result

\* the parsed value after the fills, or the TypeError the fills throw: null
\* has no properties to read; a property assignment on a primitive throws in
\* strict code and is ignored in sloppy code
applyFallbacks(parsed, strict) ==
  CASE parsed.t = "null" -> [threw |-> TRUE, error |-> NewError(Str_CannotReadNull)]
    [] parsed.t \in {"obj", "arr"} -> [threw |-> FALSE, value |-> normalize(parsed)]
    [] OTHER ->
         IF strict
         THEN [threw |-> TRUE, error |-> NewError(Str_CannotCreateProperty \o reprOf(parsed))]
         ELSE [threw |-> FALSE, value |-> parsed]

\* if (!response.text) throw new Error("Model returned empty response")
textMissing(text) == ~Truthy(text)

\* the handler from the return of withRetry to res.json(result)
afterInvoke(text, strict, echo) ==
  IF textMissing(text)
  THEN [threw |-> TRUE, error |-> NewError(Str_EmptyResponse)]
  ELSE LET parsed == JSONparse(text, echo)
       IN  IF parsed.threw THEN parsed ELSE applyFallbacks(parsed.value, strict)

\* ------------------------------------------------------------------------
\* The catch block of POST /api/analyze
\* ------------------------------------------------------------------------
ErrorBody(msg) == Obj([error |-> msg])

keySourceOf(environment) ==
  IF Truthy(environment.COGAPI3) THEN Str_COGAPI3
  ELSE IF Truthy(environment.GEMINI_API_KEY) THEN Str_GEMINI_API_KEY
  ELSE Str_Unknown

\* status === 429 || message.includes("rate exceeded") || message.includes("quota")
isRateLimited(status, message) ==
  \/ status = Num(429)
  \/ includes(message, Str_rate_exceeded)
  \/ includes(message, Str_quota)

\* a variant of catchResponse whose last branch always answers 500
catchResponse_generic500(error, environment) ==
  LET status == JsOr(statusOf(error), Num(500))
      message == messageOf(error)
  IN  IF status = Num(400) /\ includes(message, Str_api_key_not_valid)
      THEN [status |-> 400,
            body |-> ErrorBody(Str(Str_KeyInvalidHead \o keySourceOf(environment) \o Str_KeyInvalidTail))]
      ELSE IF isRateLimited(status, message)
      THEN [status |-> 429, body |-> ErrorBody(Str(Str_RateLimit))]
      ELSE [status |-> 500, body |-> ErrorBody(JsOr(error.message, Str(Str_FailedToAnalyze)))]

catchResponse(error, environment) ==
  LET status == JsOr(statusOf(error), Num(500))
      message == messageOf(error)
  IN  IF status = Num(400) /\ includes(message, Str_api_key_not_valid)
      THEN [status |-> 400,
            body |-> ErrorBody(Str(Str_KeyInvalidHead \o keySourceOf(environment) \o Str_KeyInvalidTail))]
      ELSE IF isRateLimited(status, message)
      THEN [status |-> 429, body |-> ErrorBody(Str(Str_RateLimit))]
      ELSE [status |-> status.v, body |-> ErrorBody(JsOr(error.message, Str(Str_FailedToAnalyze)))]

\* ------------------------------------------------------------------------
\* JSON.stringify and JSON.parse on strings of characters
\* ------------------------------------------------------------------------
\* the property names that occur in an AnalysisResult or a user, each with its
\* characters; the order of the table is the order in which the own
\* properties of an object are enumerated
KeyTable ==
  <<
    <<"anomalies", <<"a", "n", "o", "m", "a", "l", "i", "e", "s">>>>,
    <<"avatar", <<"a", "v", "a", "t", "a", "r">>>>,
    <<"data", <<"d", "a", "t", "a">>>>,
    <<"data_summary", <<"d", "a", "t", "a", "_", "s", "u", "m", "m", "a", "r", "y">>>>,
    <<"detected_entities", <<"d", "e", "t", "e", "c", "t", "e", "d", "_", "e", "n", "t", "i", "t", "i", "e", "s">>>>,
    <<"email", <<"e", "m", "a", "i", "l">>>>,
    <<"forecast", <<"f", "o", "r", "e", "c", "a", "s", "t">>>>,
    <<"geographic_matrix", <<"g", "e", "o", "g", "r", "a", "p", "h", "i", "c", "_", "m", "a", "t", "r", "i", "x">>>>,
    <<"id", <<"i", "d">>>>,
    <<"insights", <<"i", "n", "s", "i", "g", "h", "t", "s">>>>,
    <<"key_metrics", <<"k", "e", "y", "_", "m", "e", "t", "r", "i", "c", "s">>>>,
    <<"market_expansion", <<"m", "a", "r", "k", "e", "t", "_", "e", "x", "p", "a", "n", "s", "i", "o", "n">>>>,
    <<"metrics", <<"m", "e", "t", "r", "i", "c", "s">>>>,
    <<"name", <<"n", "a", "m", "e">>>>,
    <<"operational_efficiency", <<"o", "p", "e", "r", "a", "t", "i", "o", "n", "a", "l", "_", "e", "f", "f", "i", "c", "i", "e", "n", "c", "y">>>>,
    <<"recommendations", <<"r", "e", "c", "o", "m", "m", "e", "n", "d", "a", "t", "i", "o", "n", "s">>>>,
    <<"relationships", <<"r", "e", "l", "a", "t", "i", "o", "n", "s", "h", "i", "p", "s">>>>,
    <<"risk_analysis", <<"r", "i", "s", "k", "_", "a", "n", "a", "l", "y", "s", "i", "s">>>>,
    <<"risk_heatmap", <<"r", "i", "s", "k", "_", "h", "e", "a", "t", "m", "a", "p">>>>,
    <<"strategic_growth", <<"s", "t", "r", "a", "t", "e", "g", "i", "c", "_", "g", "r", "o", "w", "t", "h">>>>,
    <<"title", <<"t", "i", "t", "l", "e">>>>,
    <<"value", <<"v", "a", "l", "u", "e">>>>,
    <<"visualizations", <<"v", "i", "s", "u", "a", "l", "i", "z", "a", "t", "i", "o", "n", "s">>>>
  >>

\* the property name spelled by a string of characters ("" when it is none of the table)
KeyOf(chars) ==
  IF \E k \in 1..Len(KeyTable) : KeyTable[k][2] = chars
  THEN KeyTable[CHOOSE k \in 1..Len(KeyTable) : KeyTable[k][2] = chars][1]
  ELSE ""

DigitChars == <<"0", "1", "2", "3", "4", "5", "6", "7", "8", "9">>

DigitValue(c) == (CHOOSE k \in 1..10 : DigitChars[k] = c) - 1

IsDigit(c) == \E k \in 1..10 : DigitChars[k] = c

\* the decimal digits of a natural number
RECURSIVE NatChars(_)
NatChars(n) ==
  IF n < 10 THEN <<DigitChars[n + 1]>>
  ELSE NatChars(n \div 10) \o <<DigitChars[(n % 10) + 1]>>

NumChars(n) == IF n < 0 THEN <<"-">> \o NatChars(0 - n) ELSE NatChars(n)

\* the escape of a character inside a JSON string literal
EscapeOf(c) ==
  CASE c = "\"" -> <<"\\", "\"">>
    [] c = "\\" -> <<"\\", "\\">>
    [] c = "\n" -> <<"\\", "n">>
    [] c = "\r" -> <<"\\", "r">>
    [] c = "\t" -> <<"\\", "t">>
    [] OTHER -> <<c>>

\* the characters of a string with quotation mark, reverse solidus and
\* control characters escaped
RECURSIVE EscapeChars(_)
EscapeChars(s) ==
  IF s = <<>> THEN <<>> ELSE EscapeOf(Head(s)) \o EscapeChars(Tail(s))

\* a variant of QuoteString that escapes nothing
QuoteString_raw(s) == <<"\"">> \o s \o <<"\"">>

QuoteString(s) == <<"\"">> \o EscapeChars(s) \o <<"\"">>

RECURSIVE JSONstringify(_)

RECURSIVE stringifyElems(_)

RECURSIVE stringifyMembers(_, _, _)

\* JSON.stringify(value) for a value that is not undefined: properties whose
\* value is undefined are left out, undefined array elements become null,
\* own properties of an array are not serialised
JSONstringify(value) ==
  CASE value.t = "null" -> <<"n", "u", "l", "l">>
    [] value.t = "undefined" -> <<"n", "u", "l", "l">>
    [] value.t = "bool" -> IF value.v THEN <<"t", "r", "u", "e">> ELSE <<"f", "a", "l", "s", "e">>
    [] value.t = "num" -> NumChars(value.v)
    [] value.t = "str" -> QuoteString(value.v)
    [] value.t = "arr" -> <<"[">> \o stringifyElems(value.v) \o <<"]">>
    [] value.t = "obj" -> <<"{">> \o stringifyMembers(value.f, 1, TRUE) \o <<"}">>

stringifyElems(elems) ==
  IF elems = <<>> THEN <<>>
  ELSE JSONstringify(Head(elems))
       \o (IF Len(elems) > 1 THEN <<",">> ELSE <<>>)
       \o stringifyElems(Tail(elems))

\* the members of an object from entry k of the table on; first tells
\* whether no member has been written yet
stringifyMembers(props, k, first) ==
  IF k > Len(KeyTable) THEN <<>>
  ELSE LET key == KeyTable[k][1]
       IN  IF key \in DOMAIN props /\ props[key] # Undefined
           THEN (IF first THEN <<>> ELSE <<",">>)
                \o QuoteString(KeyTable[k][2]) \o <<":">> \o JSONstringify(props[key])
                \o stringifyMembers(props, k + 1, FALSE)
           ELSE stringifyMembers(props, k + 1, first)

ParseFail == [ok |-> FALSE]

ParseOk(value, next) == [ok |-> TRUE, v |-> value, p |-> next]

\* the character of s at position p ("" past the end)
At(s, p) == IF p >= 1 /\ p <= Len(s) THEN s[p] ELSE ""

StartsAt(s, p, word) == p + Len(word) - 1 <= Len(s) /\ SubSeq(s, p, p + Len(word) - 1) = word

\* the character an escape sequence of a string literal stands for, by the
\* character after the reverse solidus (the escapes b, f and u stand for
\* characters outside the alphabet of the inputs and are left out)
Unescape ==
  [c \in {"\"", "\\", "/", "n", "r", "t"} |->
     CASE c = "n" -> "\n" [] c = "r" -> "\r" [] c = "t" -> "\t" [] OTHER -> c]

\* the characters of a string literal whose opening quotation mark precedes p;
\* a raw control character or the end of the text is an error
RECURSIVE parseStringBody(_, _, _)
parseStringBody(s, p, acc) ==
  CASE At(s, p) \in {"", "\n", "\r", "\t"} -> ParseFail
    [] At(s, p) = "\"" -> ParseOk(acc, p + 1)
    [] At(s, p) = "\\" ->
         IF At(s, p + 1) \in DOMAIN Unescape
         THEN parseStringBody(s, p + 2, Append(acc, Unescape[At(s, p + 1)]))
         ELSE ParseFail
    [] OTHER -> parseStringBody(s, p + 1, Append(acc, At(s, p)))

RECURSIVE parseDigits(_, _, _)
parseDigits(s, p, acc) ==
  IF IsDigit(At(s, p)) THEN parseDigits(s, p + 1, (10 * acc) + DigitValue(At(s, p)))
  ELSE ParseOk(acc, p)

\* an integer literal: no digit, or a leading zero followed by a digit, is an error
parseNumber(s, p) ==
  LET neg == At(s, p) = "-"
      q == IF neg THEN p + 1 ELSE p
  IN  IF ~IsDigit(At(s, q)) \/ (At(s, q) = "0" /\ IsDigit(At(s, q + 1)))
      THEN ParseFail
      ELSE LET r == parseDigits(s, q, 0)
           IN  ParseOk(Num(IF neg THEN 0 - r.v ELSE r.v), r.p)

\* the insignificant white space of JSON
JsonWhiteSpace == {" ", "\t", "\n", "\r"}

\* the position of the first character at or after p that is not white space
RECURSIVE skipWhiteSpace(_, _)
skipWhiteSpace(s, p) ==
  IF At(s, p) \in JsonWhiteSpace THEN skipWhiteSpace(s, p + 1) ELSE p

RECURSIVE parseValue(_, _)

RECURSIVE parseElems(_, _, _)

RECURSIVE parseMembers(_, _, _)

\* the JSON value that starts at position p of s, and the position after it
parseValue(s, p0) ==
  LET p == skipWhiteSpace(s, p0)
      c == At(s, p)
  IN  CASE c = "n" -> IF StartsAt(s, p, <<"n", "u", "l", "l">>) THEN ParseOk(Null, p + 4) ELSE ParseFail
        [] c = "t" -> IF StartsAt(s, p, <<"t", "r", "u", "e">>) THEN ParseOk(Bool(TRUE), p + 4) ELSE ParseFail
        [] c = "f" -> IF StartsAt(s, p, <<"f", "a", "l", "s", "e">>) THEN ParseOk(Bool(FALSE), p + 5) ELSE ParseFail
        [] c = "\"" -> LET r == parseStringBody(s, p + 1, <<>>)
                       IN  IF r.ok THEN ParseOk(Str(r.v), r.p) ELSE ParseFail
        [] c = "[" -> IF At(s, skipWhiteSpace(s, p + 1)) = "]" THEN ParseOk(Arr(<<>>), skipWhiteSpace(s, p + 1) + 1) ELSE parseElems(s, p + 1, <<>>)
        [] c = "{" -> IF At(s, skipWhiteSpace(s, p + 1)) = "}" THEN ParseOk(Obj(NoProps), skipWhiteSpace(s, p + 1) + 1) ELSE parseMembers(s, p + 1, Obj(NoProps))
        [] c = "-" \/ IsDigit(c) -> parseNumber(s, p)
        [] OTHER -> ParseFail

parseElems(s, p, acc) ==
  LET r == parseValue(s, p)
  IN  IF ~r.ok THEN ParseFail
      ELSE LET e == skipWhiteSpace(s, r.p)
           IN  CASE At(s, e) = "," -> parseElems(s, e + 1, Append(acc, r.v))
                 [] At(s, e) = "]" -> ParseOk(Arr(Append(acc, r.v)), e + 1)
                 [] OTHER -> ParseFail

parseMembers(s, p0, acc) ==
  LET p == skipWhiteSpace(s, p0)
  IN  IF At(s, p) # "\"" THEN ParseFail
      ELSE LET k == parseStringBody(s, p + 1, <<>>)
           IN  IF ~k.ok THEN ParseFail
               ELSE LET c == skipWhiteSpace(s, k.p)
                    IN  IF KeyOf(k.v) = "" \/ At(s, c) # ":" THEN ParseFail
                        ELSE LET r == parseValue(s, c + 1)
                             IN  IF ~r.ok THEN ParseFail
                                 ELSE LET e == skipWhiteSpace(s, r.p)
                                      IN  CASE At(s, e) = "," -> parseMembers(s, e + 1, SetProp(acc, KeyOf(k.v), r.v))
                                            [] At(s, e) = "}" -> ParseOk(SetProp(acc, KeyOf(k.v), r.v), e + 1)
                                            [] OTHER -> ParseFail

\* JSON.parse(s) for a string of characters: the value, or a failure (the
\* SyntaxError) when s is no JSON text or is followed by further characters
JSONparseString(s) ==
  LET r == parseValue(s, 1)
  IN  IF r.ok /\ skipWhiteSpace(s, r.p) = Len(s) + 1 THEN [threw |-> FALSE, value |-> r.v] ELSE [threw |-> TRUE]

\* ------------------------------------------------------------------------
\* The database intelligence.db: tables users and reports
\* ------------------------------------------------------------------------
U1 == Str(<<"u", "1">>)

U2 == Str(<<"u", "2">>)

\* the browsers that talk to the server, and the Google account each signs in with
Callers == {"c1", "c2"}

AccountOf == [c1 |-> U1, c2 |-> U2]

\* the display name of each account
NameOf == [c1 |-> Str(<<"A", "d", "a">>), c2 |-> Str(<<"B", "o", "b">>)]

\* the userinfo document of an account
Profile(id, name) ==
  [id |-> id, name |-> name,
   email |-> Str(id.v \o <<"@", "x">>), picture |-> Str(<<"/", "p">>)]

\* the i-th report identifier a client supplies
ReportId(n) == Str(<<"r", "e", "p", "_">> \o NatChars(n))

\* the query / result pairs a client stores
Query1 == Str(<<"q", "1">>)

Query2 == Str(<<"q", "2">>)

Context1 == Str(<<"Q", "1">>)

Context2 == Str(<<>>)

Result1 == Obj([insights |-> Arr(<<>>)])

Result2 == Obj([data |-> Arr(<<Num(-3), Null>>)])

\* the query, context and result a client sends together
Payloads == {<<Query1, Context1, Result1>>, <<Query2, Context2, Result2>>}

\* a row of table reports
ReportRow(id, user_id, query, context, result, created_at) ==
  [id |-> id, user_id |-> user_id, query |-> query, context |-> context,
   result |-> result, created_at |-> created_at]

\* the ids in table users (a set of rows)
userIds(usersTable) == {row.id : row \in usersTable}

\* id TEXT PRIMARY KEY: no two rows with the same non-NULL id
violatesPrimaryKey(rows, id) ==
  id # Null /\ \E k \in 1..Len(rows) : rows[k].id = id

\* FOREIGN KEY(user_id) REFERENCES users(id), when the build enforces foreign keys
violatesForeignKey(usersTable, user_id, enforced) ==
  enforced /\ user_id # Null /\ user_id \notin userIds(usersTable)

\* a row of table users
UserRow(id, name, email, avatar) ==
  [id |-> id, name |-> name, email |-> email, avatar |-> avatar]

\* a variant of upsertUser with the semantics of INSERT OR IGNORE
upsertUser_ignore(usersTable, id, name, email, avatar) ==
  IF id \in userIds(usersTable)
  THEN usersTable
  ELSE usersTable \cup {UserRow(id, name, email, avatar)}

\* INSERT OR REPLACE INTO users (id, name, email, avatar) VALUES (?, ?, ?, ?):
\* the rows that conflict on the primary key are deleted, then the row is inserted
upsertUser(usersTable, id, name, email, avatar) ==
  {row \in usersTable : row.id # id} \cup {UserRow(id, name, email, avatar)}

\* a variant of reportsAfterUpsert in which replacing a user deletes the reports that refer to it
reportsAfterUpsert_cascade(rows, usersTable, id) ==
  IF id \in userIds(usersTable)
  THEN SelectSeq(rows, LAMBDA r : r.user_id # id)
  ELSE rows

\* table reports after INSERT OR REPLACE INTO users: the foreign key has no
\* ON DELETE action, replacing the parent row leaves the child rows alone
reportsAfterUpsert(rows, usersTable, id) == rows

\* a variant of runInsertReport with the semantics of INSERT OR REPLACE
runInsertReport_replace(rows, usersTable, enforced, row) ==
  IF violatesForeignKey(usersTable, row.user_id, enforced)
  THEN [threw |-> TRUE, rows |-> rows]
  ELSE IF violatesPrimaryKey(rows, row.id)
  THEN [threw |-> FALSE,
        rows |-> [k \in 1..Len(rows) |-> IF rows[k].id = row.id THEN row ELSE rows[k]]]
  ELSE [threw |-> FALSE, rows |-> Append(rows, row)]

\* INSERT INTO reports (id, user_id, query, context, result) VALUES (?, ?, ?, ?, ?):
\* a constraint violation throws and leaves the table as it was
runInsertReport(rows, usersTable, enforced, row) ==
  IF violatesPrimaryKey(rows, row.id) \/ violatesForeignKey(usersTable, row.user_id, enforced)
  THEN [threw |-> TRUE, rows |-> rows]
  ELSE [threw |-> FALSE, rows |-> Append(rows, row)]

\* LIMIT 10
historyLimit == 10

\* a variant of matchesUser that selects every row
matchesUser_any(row, userId) == TRUE

\* WHERE user_id = ?
matchesUser(row, userId) == row.user_id = userId

\* row k comes before row j under ORDER BY created_at DESC; rows with equal
\* created_at come in the order of the table scan, which is the order of
\* insertion (the sorter of SQLite keys each row by created_at and by its
\* sequence number in the scan)
comesBefore(rows, k, j) ==
  \/ rows[k].created_at > rows[j].created_at
  \/ rows[k].created_at = rows[j].created_at /\ k < j

RECURSIVE orderedIndices(_, _)
orderedIndices(rows, S) ==
  IF S = {} THEN <<>>
  ELSE LET k == CHOOSE k \in S : \A j \in S \ {k} : comesBefore(rows, k, j)
       IN  <<k>> \o orderedIndices(rows, S \ {k})

\* a variant of limitRows without the LIMIT
limitRows_all(seq) == seq

\* the first historyLimit entries
limitRows(seq) == SubSeq(seq, 1, IF Len(seq) < historyLimit THEN Len(seq) ELSE historyLimit)

\* SELECT * FROM reports WHERE user_id = ? ORDER BY created_at DESC LIMIT 10
selectReports(rows, userId) ==
  LET order == limitRows(orderedIndices(rows, {k \in 1..Len(rows) : matchesUser(rows[k], userId)}))
  IN  [n \in 1..Len(order) |-> rows[order[n]]]

\* ({ ...r, result: JSON.parse(r.result) })
decodeRow(row) == [row EXCEPT !.result = JSONparseString(row.result).value]

\* ------------------------------------------------------------------------
\* GET /api/auth/google/url: building the authorization URL
\* ------------------------------------------------------------------------
\* .replace(/\/$/, ""): the string without one trailing solidus
stripTrailingSlash(s) ==
  IF s # <<>> /\ s[Len(s)] = "/" THEN SubSeq(s, 1, Len(s) - 1) ELSE s

\* process.env.APP_URL?.replace(/\/$/, "")
appUrlOf(environment) ==
  IF environment.APP_URL.t = "str"
  THEN Str(stripTrailingSlash(environment.APP_URL.v))
  ELSE Undefined

\* a variant of clientIdMissing that accepts every value
clientIdMissing_never(environment) == FALSE

\* if (!process.env.GOOGLE_CLIENT_ID)
clientIdMissing(environment) == ~Truthy(environment.GOOGLE_CLIENT_ID)

\* the string a value is converted to by URLSearchParams
toStringChars(value) == IF value.t = "str" THEN value.v ELSE Str_undefined

\* application/x-www-form-urlencoded serialisation of one character, for the
\* characters of the inputs
formEncodeChar(c) ==
  CASE c = " " -> <<"+">>
    [] c = ":" -> <<"%", "3", "A">>
    [] c = "/" -> <<"%", "2", "F">>
    [] OTHER -> <<c>>

RECURSIVE formEncode(_)
formEncode(s) ==
  IF s = <<>> THEN <<>> ELSE formEncodeChar(Head(s)) \o formEncode(Tail(s))

\* name=value of URLSearchParams.toString()
formPair(name, value) == name \o <<"=">> \o formEncode(value)

\* `${rootUrl}?${qs.toString()}`
authorizationUrl(appUrl, clientId) ==
  Str_rootUrl \o <<"?">>
    \o formPair(Str_redirect_uri, appUrl \o Str_callbackPath) \o <<"&">>
    \o formPair(Str_client_id, toStringChars(clientId)) \o <<"&">>
    \o formPair(Str_access_type, Str_offline) \o <<"&">>
    \o formPair(Str_response_type, Str_code) \o <<"&">>
    \o formPair(Str_prompt, Str_consent) \o <<"&">>
    \o formPair(Str_scope, Str_scopes)

\* the response of the route for an environment
authUrlResponse(environment) ==
  IF ~Truthy(appUrlOf(environment))
  THEN [status |-> 500, body |-> ErrorBody(Str(Str_AppUrlNotSet))]
  ELSE IF clientIdMissing(environment)
  THEN [status |-> 500, body |-> ErrorBody(Str(Str_ClientIdNotSet))]
  ELSE [status |-> 200,
        body |-> Obj([url |-> Str(authorizationUrl(appUrlOf(environment).v,
                                                   environment.GOOGLE_CLIENT_ID))])]

\* ------------------------------------------------------------------------
\* Inputs
\* ------------------------------------------------------------------------
\* largest number of top-level fields present in an upstream document
MaxPresent == 1

\* values an upstream document can carry in a top-level field
FieldVals ==
  { Null, Bool(FALSE), Num(0), Arr(<<>>), Obj(NoProps) }

ObjectDocs ==
  { Obj(props) : props \in UNION { [S -> FieldVals] :
                     S \in {T \in SUBSET AllFields : Cardinality(T) <= MaxPresent} } }

\* a document with every top-level field present and non-empty
FullDoc ==
  Obj([f \in AllFields |-> IF f \in {"data_summary", "forecast"} THEN Obj(NoProps) ELSE Arr(<<Num(1)>>)])

\* parsed upstream documents: objects, and the JSON values that are no object
Docs == ObjectDocs \cup {FullDoc, Null, Num(5), Str(Str_quota), Arr(<<>>)}

\* what response.text of a successful upstream call can be
Texts ==
  {Undefined, Str(<<>>),
   Str(<<"n", "o", "t", " ", "j", "s", "o", "n">>),
   Str(<<"o", "v", "e", "r", " ", "q", "u", "o", "t", "a">>)}
  \cup {JsonText(doc) : doc \in Docs}

\* req.body.dataset: absent, falsy, an array of rows, or a value that is no array
Datasets ==
  {Undefined, Null, Arr(<<>>), Arr(<<Obj([region |-> Str(<<"E", "U">>)])>>),
   Num(7), Str(<<"a", ",", "b">>)}

\* process.env.COGAPI3 and process.env.GEMINI_API_KEY: unset, blank or a key
Environments ==
  [COGAPI3 : {Undefined, Str(<<" ">>), Str(<<"k", "e", "y">>)},
   GEMINI_API_KEY : {Undefined, Str(<<" ", "k", "2">>)},
   APP_URL : {Str(AppOrigin)},
   GOOGLE_CLIENT_ID : {Str(<<"c", "i", "d">>)}]

\* largest number of rows of table reports in the two-browser runs
MaxReports == 2

\* largest value of the clock
MaxTime == 1

\* largest number of rows of table reports in the one-user runs
MaxListed == 11

\* largest number of requests for the authorization URL
MaxAuthCalls == 2

\* the environments of the sign-in routes
AuthEnvironments ==
  [COGAPI3 : {Str(<<"k", "e", "y">>)},
   GEMINI_API_KEY : {Undefined},
   APP_URL : {Undefined, Str(<<>>), Str(<<"/">>), Str(AppOrigin), Str(AppOrigin \o <<"/">>),
              Str(LocalOrigin)},
   GOOGLE_CLIENT_ID : {Undefined, Str(<<>>), Str(<<"c", "i", "d">>), Str(<<"c", " ", "d">>)}]

\* largest length of an array inside a saved analysis result
MaxElems == 2

CodecStrings == {Str(<<>>), Str(<<"a", "\"", "\\", "\n">>)}

CodecAtoms == {Null, Bool(TRUE), Bool(FALSE), Num(0), Num(-3), Num(120)} \cup CodecStrings

CodecArrays == {Arr(elems) : elems \in UNION {[1..n -> CodecAtoms] : n \in 0..MaxElems}}

\* analysis results as the JSON body of a request can carry them
CodecValues ==
  {Obj(NoProps)}
    \cup {Obj([insights |-> a]) : a \in CodecArrays}
    \cup {Obj([forecast |-> Obj([title |-> s, data |-> Arr(<<Obj([value |-> x])>>)]),
               anomalies |-> Arr(<<>>)]) : s \in CodecStrings, x \in CodecAtoms}

\* the runtime's choices that can show in the answer for a given text:
\* <<strict, echo>>, strict for the mode the handler runs in (it matters for
\* a primitive document only), echo for the engine's SyntaxError wording (it
\* matters for a text that does not parse only)
RuntimeChoices(text) ==
  IF text.t = "json"
  THEN IF text.doc.t \in {"num", "str", "bool"}
       THEN {<<TRUE, FALSE>>, <<FALSE, FALSE>>}
       ELSE {<<TRUE, FALSE>>}
  ELSE IF Truthy(text) THEN {<<TRUE, TRUE>>, <<TRUE, FALSE>>} ELSE {<<TRUE, FALSE>>}

\* ------------------------------------------------------------------------
\* State
\* ------------------------------------------------------------------------
VARIABLES
  env,        \* process.env, fixed when the process starts
  pc,         \* position of the /api/analyze request
  dataset,    \* req.body.dataset of the request
  i,          \* withRetry: loop counter
  lastError,  \* withRetry: lastError
  calls,      \* number of calls of fn (ai.models.generateContent) so far
  waits,      \* the delays of the setTimeout sleeps performed so far, in order
  upReply,    \* the outcome of the latest upstream call
  outcome,    \* how withRetry ended: "returned", "rethrown" (line 68), "exhausted" (line 71)
  caught,     \* the error caught by the handler's catch block
  res,        \* the HTTP response sent
  users,      \* table users: its rows
  reports,    \* table reports: its rows in insertion (rowid) order
  clock,      \* CURRENT_TIMESTAMP, in seconds
  fkEnforced, \* whether this build of SQLite enforces foreign keys
  flowRes,    \* per browser, the latest response of /auth/google/callback
  storeRes,   \* the latest response of the /api/reports routes, with its request
  authRes,    \* the latest response of /api/auth/google/url
  posted,     \* the latest message the callback page posted and the window that got it
  event,      \* the latest message event dispatched to the application window
  user,       \* the application's React state user
  localStorage, \* localStorage item cognitia_user of the application's origin
  fetched,    \* the user id of the latest history request of the application
  codecX,     \* the analysis result a browser holds and saves
  callbacks,  \* per browser, the position of its /auth/google/callback request
  requests,   \* per concurrent /api/analyze request, the locals of its withRetry call
  app,        \* the React state of the application and the position of runAnalysis
  now         \* Date.now() of the browser, in milliseconds

analyzeVars == <<env, pc, dataset, i, lastError, calls, waits, upReply, outcome, caught, res>>

storeVars == <<users, reports, clock, fkEnforced, flowRes, storeRes>>

authVars == <<authRes, posted, event, user, localStorage, fetched>>

codecVars == <<codecX>>

callbackVars == <<callbacks>>

retryVars == <<requests>>

clientVars == <<app, now>>

vars == <<analyzeVars, storeVars, authVars, codecVars, callbackVars, retryVars, clientVars>>

NoReply == [kind |-> "none"]

NoRes == [status |-> 0, body |-> Undefined]

NoFlow == [status |-> 0, kind |-> "none"]

NoStoreRes == [route |-> "none"]

\* no request to /api/analyze has arrived
AnalyzeIdle ==
  /\ pc = "idle"
  /\ dataset = Undefined
  /\ i = 0
  /\ lastError = Undefined
  /\ calls = 0
  /\ waits = <<>>
  /\ upReply = NoReply
  /\ outcome = "none"
  /\ caught = Undefined
  /\ res = NoRes

\* a fresh database, no sign-in so far
StoreIdle ==
  /\ users = {}
  /\ reports = <<>>
  /\ clock = 0
  /\ flowRes = [c \in Callers |-> NoFlow]
  /\ storeRes = NoStoreRes

\* the application window before any sign-in
NoAuthRes == [status |-> 0, body |-> Undefined, call |-> 0]

AuthIdle ==
  /\ authRes = NoAuthRes
  /\ fetched = Null
  /\ posted = [kind |-> "none"]
  /\ event = [kind |-> "none"]
  /\ user = Null
  /\ localStorage = Null

CodecIdle == codecX = Null

\* no callback request has arrived
NoCallback == [pc |-> "idle", trace |-> <<>>, attempts |-> 0]

CallbackIdle == callbacks = [c \in Callers |-> NoCallback]

\* the two concurrent requests to /api/analyze
Requests == {"r1", "r2"}

\* a request that has not arrived
NoRequest ==
  [pc |-> "idle", i |-> 0, lastError |-> Undefined, calls |-> 0, waits |-> <<>>,
   status |-> 0, sent |-> 0]

RetryIdle == requests = [r \in Requests |-> NoRequest]

\* no call of runAnalysis is in progress
NoRun == [pc |-> "idle"]

\* the application after it is mounted: data, isAnalyzing, result, error and
\* history are its React state (data as whether rows are loaded); fetches
\* are the user ids of the history requests in flight; runs, analysed and
\* failedSaves count the calls of runAnalysis, the analyses that succeeded
\* for a signed-in user and the saves that failed
AppIdle ==
  [data |-> FALSE, isAnalyzing |-> FALSE, result |-> Null, error |-> Null, history |-> <<>>,
   run |-> NoRun, fetches |-> {}, runs |-> 0, analysed |-> 0, failedSaves |-> 0]

ClientIdle ==
  /\ app = AppIdle
  /\ now = 0

Init ==
  /\ env \in Environments
  /\ AnalyzeIdle
  /\ StoreIdle
  /\ fkEnforced = TRUE
  /\ AuthIdle
  /\ CodecIdle
  /\ CallbackIdle
  /\ RetryIdle
  /\ ClientIdle

\* the environment of a deployment with every variable set
FullEnv ==
  [COGAPI3 |-> Str(<<"k", "e", "y">>), GEMINI_API_KEY |-> Undefined,
   APP_URL |-> Str(AppOrigin), GOOGLE_CLIENT_ID |-> Str(<<"c", "i", "d">>)]

InitStore ==
  /\ env = FullEnv
  /\ AnalyzeIdle
  /\ StoreIdle
  /\ fkEnforced \in BOOLEAN
  /\ AuthIdle
  /\ CodecIdle
  /\ CallbackIdle
  /\ RetryIdle
  /\ ClientIdle

\* ------------------------------------------------------------------------
\* POST /api/analyze
\* ------------------------------------------------------------------------
\* if (!dataset)
datasetMissing(ds) == ~Truthy(ds)

\* const apiKey = process.env.COGAPI3 || process.env.GEMINI_API_KEY
apiKeyOf(environment) == JsOr(environment.COGAPI3, environment.GEMINI_API_KEY)

\* a variant of apiKeyMissing that does not trim the key
apiKeyMissing_noTrim(apiKey) == ~Truthy(apiKey)

\* if (!apiKey || apiKey.trim() === "")
apiKeyMissing(apiKey) == ~Truthy(apiKey) \/ trim(apiKey.v) = <<>>

\* dataset.slice(0, 100).map(...): undefined when it evaluates, else the
\* TypeError it throws (a number has no slice, a string's slice has no map)
promptError(ds) ==
  CASE ds.t = "arr" -> Undefined
    [] ds.t = "str" -> NewError(Str_MapNotFunction)
    [] OTHER -> NewError(Str_SliceNotFunction)

\* the handler's catch block: the response for a caught error
Fail(error) ==
  /\ caught' = error
  /\ res' = catchResponse(error, env)
  /\ pc' = "done"

\* the handler up to the first upstream call
Analyze(ds) ==
  /\ pc = "idle"
  /\ UNCHANGED <<storeVars, authVars, codecVars, callbackVars, retryVars, clientVars>>
  /\ dataset' = ds
  /\ UNCHANGED <<env, i, lastError, waits, upReply, outcome>>
  /\ IF datasetMissing(ds)
     THEN /\ res' = [status |-> 400, body |-> ErrorBody(Str(Str_DatasetRequired))]
          /\ pc' = "done"
          /\ UNCHANGED <<calls, caught>>
     ELSE IF apiKeyMissing(apiKeyOf(env))
     THEN /\ res' = [status |-> 500, body |-> ErrorBody(Str(Str_KeyNotConfigured))]
          /\ pc' = "done"
          /\ UNCHANGED <<calls, caught>>
     ELSE IF promptError(ds) # Undefined
     THEN /\ Fail(promptError(ds))
          /\ UNCHANGED calls
     ELSE /\ calls' = calls + 1
          /\ pc' = "awaitUpstream"
          /\ UNCHANGED <<caught, res>>

\* withRetry returns or throws: its locals i and lastError cease to exist
LeaveRetry(how) ==
  /\ outcome' = how
  /\ i' = 0
  /\ lastError' = Undefined

\* the upstream call fails: withRetry's catch block
UpstreamFail(error) ==
  /\ pc = "awaitUpstream"
  /\ UNCHANGED <<storeVars, authVars, codecVars, callbackVars, retryVars, clientVars>>
  /\ upReply' = [kind |-> "error", error |-> error]
  /\ UNCHANGED <<env, dataset, calls>>
  /\ IF isRetryable(error)
     THEN /\ lastError' = recordError(lastError, error)
          /\ waits' = Append(waits, delayOf(i))
          /\ pc' = "sleeping"
          /\ UNCHANGED <<i, outcome, caught, res>>
     ELSE /\ LeaveRetry("rethrown")
          /\ Fail(error)
          /\ UNCHANGED waits

\* the backoff timer fires: continue with the next iteration, or leave the
\* loop and throw lastError
TimerFires ==
  /\ pc = "sleeping"
  /\ UNCHANGED <<storeVars, authVars, codecVars, callbackVars, retryVars, clientVars>>
  /\ UNCHANGED <<env, dataset, waits, upReply>>
  /\ IF loopContinues(i + 1)
     THEN /\ i' = i + 1
          /\ calls' = calls + 1
          /\ pc' = "awaitUpstream"
          /\ UNCHANGED <<lastError, outcome, caught, res>>
     ELSE /\ LeaveRetry("exhausted")
          /\ Fail(lastError)
          /\ UNCHANGED calls

\* the upstream call succeeds: withRetry returns and the handler parses,
\* fills and answers
UpstreamReturns(text, strict, echo) ==
  /\ pc = "awaitUpstream"
  /\ UNCHANGED <<storeVars, authVars, codecVars, callbackVars, retryVars, clientVars>>
  /\ upReply' = [kind |-> "ok", text |-> text]
  /\ LeaveRetry("returned")
  /\ UNCHANGED <<env, dataset, calls, waits>>
  /\ LET r == afterInvoke(text, strict, echo)
     IN  IF r.threw
         THEN Fail(r.error)
         ELSE /\ res' = [status |-> 200, body |-> resJson(r.value)]
              /\ pc' = "done"
              /\ UNCHANGED caught

Next ==
  \/ \E ds \in Datasets : Analyze(ds)
  \/ \E error \in UpstreamErrors : UpstreamFail(error)
  \/ TimerFires
  \/ \E text \in Texts : \E rt \in RuntimeChoices(text) : UpstreamReturns(text, rt[1], rt[2])

Spec == Init /\ [][Next]_vars

\* ------------------------------------------------------------------------
\* GET /auth/google/callback, GET /api/reports, POST /api/reports
\* ------------------------------------------------------------------------
\* { type: 'OAUTH_AUTH_SUCCESS', user: { id, name, email, avatar } }
SuccessMessage(googleUser) ==
  Obj([type |-> Str(Str_OAUTH_AUTH_SUCCESS),
       user |-> Obj([id |-> googleUser.id, name |-> googleUser.name,
                     email |-> googleUser.email, avatar |-> googleUser.picture])])

\* the page the callback answers with: its script posts message to
\* window.opener with the given target origin
CallbackPage(googleUser) ==
  [status |-> 200, kind |-> "page",
   message |-> SuccessMessage(googleUser),
   targetOrigin |-> <<"*">>]

TextResponse(status, text) == [status |-> status, kind |-> "text", body |-> text]

\* the whole callback handler for the browser of caller c: code is
\* req.query.code, exchange tells how the two requests to Google end, name is
\* the display name of the profile Google returns.  Between its awaits the
\* handler touches nothing but its locals, so it is one step.
GoogleCallback(c, code, exchange, name) ==
  /\ UNCHANGED <<analyzeVars, authVars, codecVars, callbackVars, retryVars, clientVars, clock, fkEnforced, storeRes>>
  /\ IF ~Truthy(code)
     THEN /\ flowRes' = [flowRes EXCEPT ![c] = TextResponse(400, Str_NoCodeProvided)]
          /\ UNCHANGED <<users, reports>>
     ELSE IF exchange # "ok"
     THEN /\ flowRes' = [flowRes EXCEPT ![c] = TextResponse(500, Str_AuthenticationFailed)]
          /\ UNCHANGED <<users, reports>>
     ELSE LET googleUser == Profile(AccountOf[c], name)
          IN  /\ users' = upsertUser(users, googleUser.id, googleUser.name,
                                     googleUser.email, googleUser.picture)
              /\ reports' = reportsAfterUpsert(reports, users, googleUser.id)
              /\ flowRes' = [flowRes EXCEPT ![c] = CallbackPage(googleUser)]

\* the rows of a SELECT decoded for the response; threw when JSON.parse
\* rejects a stored text
decodeRows(rows) ==
  IF \E n \in 1..Len(rows) : JSONparseString(rows[n].result).threw
  THEN [threw |-> TRUE]
  ELSE [threw |-> FALSE, value |-> [n \in 1..Len(rows) |-> decodeRow(rows[n])]]

\* the handler of GET /api/reports?userId=... answering caller c
getReportsHandler(c, userId) ==
  /\ UNCHANGED reports
  /\ IF ~Truthy(userId)
     THEN storeRes' = [route |-> "getReports", caller |-> c, userId |-> userId,
                       status |-> 400, body |-> ErrorBody(Str(Str_userIdRequired))]
     ELSE LET decoded == decodeRows(selectReports(reports, userId))
          IN  IF decoded.threw
              THEN storeRes' = [route |-> "getReports", caller |-> c, userId |-> userId,
                                status |-> 500, body |-> Undefined]
              ELSE storeRes' = [route |-> "getReports", caller |-> c, userId |-> userId,
                                status |-> 200, body |-> decoded.value]

\* GET /api/reports?userId=...
GetReports(c, userId) ==
  /\ UNCHANGED <<analyzeVars, authVars, codecVars, callbackVars, retryVars, clientVars, users, clock, fkEnforced, flowRes>>
  /\ getReportsHandler(c, userId)

\* the handler of POST /api/reports with body { id, userId, query, context,
\* result } answering caller c: an exception of run() reaches the error
\* handler of Express, which answers 500
postReportHandler(c, id, userId, query, context, result) ==
  /\ LET text == Str(JSONstringify(result))
         row == ReportRow(id, userId, query, context, text.v, clock)
         ran == runInsertReport(reports, users, fkEnforced, row)
     IN  /\ reports' = ran.rows
         /\ storeRes' = [route |-> "postReport", caller |-> c, userId |-> userId, id |-> id,
                         status |-> IF ran.threw THEN 500 ELSE 200,
                         body |-> IF ran.threw THEN Undefined ELSE Obj([success |-> Bool(TRUE)])]

\* POST /api/reports
PostReport(c, id, userId, query, context, result) ==
  /\ UNCHANGED <<analyzeVars, authVars, codecVars, callbackVars, retryVars, clientVars, users, clock, fkEnforced, flowRes>>
  /\ postReportHandler(c, id, userId, query, context, result)

\* a second passes: CURRENT_TIMESTAMP advances
Tick ==
  /\ clock < MaxTime
  /\ clock' = clock + 1
  /\ UNCHANGED <<analyzeVars, authVars, codecVars, callbackVars, retryVars, clientVars, users, reports, fkEnforced, flowRes, storeRes>>

AuthCode == Str(<<"c", "0">>)

\* browser c saves a report under the k-th identifier (the next unused one,
\* or one already stored) for the user id it sends
SaveReport(c, k, userId, payload) ==
  /\ k <= Len(reports) + 1
  /\ PostReport(c, ReportId(k), userId, payload[1], payload[2], payload[3])

\* two browsers signing in, saving and listing reports
NextStore ==
  \/ \E c \in Callers : GoogleCallback(c, AuthCode, "ok", NameOf[c])
  \/ \E c \in Callers : \E userId \in {U1, U2, Undefined} : GetReports(c, userId)
  \/ \E c \in Callers : \E k \in 1..MaxReports : \E userId \in {U1, U2} :
       \E payload \in Payloads : SaveReport(c, k, userId, payload)

SpecStore == InitStore /\ [][NextStore]_vars

\* the signed-in browser saves the report of a finished analysis under a
\* fresh identifier
SaveNext ==
  /\ Len(reports) < MaxListed
  /\ PostReport("c1", ReportId(Len(reports) + 1), U1, Query1, Context1, Result1)

\* one browser saving reports over time and reading its history
NextList ==
  \/ GoogleCallback("c1", AuthCode, "ok", NameOf["c1"])
  \/ SaveNext
  \/ GetReports("c1", U1)
  \/ Tick

SpecList == InitStore /\ [][NextList]_vars

InitAuth ==
  /\ env \in AuthEnvironments
  /\ AnalyzeIdle
  /\ StoreIdle
  /\ fkEnforced = TRUE
  /\ AuthIdle
  /\ CodecIdle
  /\ CallbackIdle
  /\ RetryIdle
  /\ ClientIdle

\* GET /api/auth/google/url: call is the number of the request
AuthUrl ==
  /\ authRes.call < MaxAuthCalls
  /\ authRes' = [status |-> authUrlResponse(env).status,
                 body |-> authUrlResponse(env).body,
                 call |-> authRes.call + 1]
  /\ UNCHANGED <<analyzeVars, storeVars, codecVars, callbackVars, retryVars, clientVars, posted, event, user, localStorage, fetched>>

\* the two sign-in routes of the server
NextAuth ==
  \/ AuthUrl
  \/ \E code \in {Undefined, AuthCode} : \E exchange \in {"ok", "tokenFails", "profileFails"} :
       GoogleCallback("c1", code, exchange, NameOf["c1"])

SpecAuth == InitAuth /\ [][NextAuth]_vars

\* the origins a window can have
Origins == {AppOrigin, LocalOrigin, OtherRunApp, LocalhostLookalike, OtherOrigin}

\* what a window of another site may post to the application window
ForeignData ==
  {SuccessMessage(Profile(U2, NameOf["c2"])), Obj([type |-> Str(<<"x">>)]), Null}

NoEvent == [kind |-> "none"]

\* window.postMessage(message, targetOrigin) reaches a window of the given origin
delivers(targetOrigin, windowOrigin) == targetOrigin = <<"*">> \/ targetOrigin = windowOrigin

\* if (!origin.endsWith('.run.app') && !origin.includes('localhost')) return;
originRejected(origin) == ~endsWith(origin, Str_run_app) /\ ~includes(origin, Str_localhost)

\* the script of the callback page runs in a popup whose opener is a window
\* of origin opener (<<>> when there is no opener); the page comes from the
\* application's origin, a message that reaches the application window is
\* queued there as a message event
PageRuns(opener) ==
  /\ flowRes["c1"].kind = "page"
  /\ event = NoEvent
  /\ UNCHANGED <<analyzeVars, storeVars, codecVars, callbackVars, retryVars, clientVars, authRes, user, localStorage, fetched>>
  /\ IF opener # <<>> /\ delivers(flowRes["c1"].targetOrigin, opener)
     THEN /\ posted' = [kind |-> "delivered", to |-> opener, data |-> flowRes["c1"].message]
          /\ event' = IF opener = AppOrigin
                      THEN [kind |-> "message", origin |-> AppOrigin, data |-> flowRes["c1"].message]
                      ELSE event
     ELSE /\ posted' = [kind |-> "none"]
          /\ UNCHANGED event

\* a window of the given origin posts data to the application window
MessageArrives(origin, data) ==
  /\ event = NoEvent
  /\ event' = [kind |-> "message", origin |-> origin, data |-> data]
  /\ UNCHANGED <<analyzeVars, storeVars, codecVars, callbackVars, retryVars, clientVars, authRes, posted, user, localStorage, fetched>>

\* handleMessage(event); fetchHistory sends the request for u.id
handleMessage ==
  /\ event # NoEvent
  /\ event' = NoEvent
  /\ UNCHANGED <<analyzeVars, storeVars, codecVars, callbackVars, retryVars, now, authRes, posted>>
  /\ IF originRejected(event.origin)
     THEN UNCHANGED <<user, localStorage, fetched, app>>
     ELSE IF Get(event.data, "type") = Str(Str_OAUTH_AUTH_SUCCESS)
     THEN LET u == Get(event.data, "user")
          IN  /\ user' = u
              /\ localStorage' = Str(JSONstringify(u))
              /\ fetched' = Get(u, "id")
              /\ app' = [app EXCEPT !.fetches = @ \cup {Get(u, "id")}]
     ELSE UNCHANGED <<user, localStorage, fetched, app>>

\* handleSignOut
handleSignOut ==
  /\ event = NoEvent
  /\ user # Null
  /\ user' = Null
  /\ localStorage' = Null
  /\ app' = [app EXCEPT !.history = <<>>, !.data = FALSE, !.result = Null, !.error = Null]
  /\ UNCHANGED <<analyzeVars, storeVars, codecVars, callbackVars, retryVars, now, authRes, posted, event, fetched>>

\* the application window, the popup of a sign-in and windows of other sites
NextHandoff ==
  \/ \E exchange \in {"ok", "tokenFails"} : GoogleCallback("c1", AuthCode, exchange, NameOf["c1"])
  \/ \E opener \in Origins \cup {<<>>} : PageRuns(opener)
  \/ \E origin \in Origins : \E data \in ForeignData : MessageArrives(origin, data)
  \/ handleMessage
  \/ handleSignOut

SpecHandoff == InitStore /\ [][NextHandoff]_vars

InitCodec ==
  /\ env = FullEnv
  /\ AnalyzeIdle
  /\ StoreIdle
  /\ fkEnforced \in BOOLEAN
  /\ AuthIdle
  /\ codecX \in CodecValues
  /\ CallbackIdle
  /\ RetryIdle
  /\ ClientIdle

\* the browser saves the analysis result it holds
SaveResult == PostReport("c1", ReportId(1), U1, Query1, Context1, codecX)

\* one browser saving an analysis result and reading it back
NextCodec ==
  \/ GoogleCallback("c1", AuthCode, "ok", NameOf["c1"])
  \/ SaveResult
  \/ GetReports("c1", U1)

SpecCodec == InitCodec /\ [][NextCodec]_vars

\* ------------------------------------------------------------------------
\* Properties of the retrying invoker
\* ------------------------------------------------------------------------
\* a failure is transient: its status (error.status, else
\* error.response.status) is 429 or 503, or its lower-cased message contains
\* "503", "429", "demand", "rate exceeded" or "quota"
Transient(error) ==
  LET st == IF Truthy(error.status) THEN error.status
            ELSE IF error.response.t = "obj" THEN error.response.f.status
            ELSE Undefined
      msg == IF error.message.t = "str" THEN toLowerCase(error.message.v) ELSE <<>>
  IN  \/ st \in {Num(429), Num(503)}
      \/ \E word \in {Str_503, Str_429, Str_demand, Str_rate_exceeded, Str_quota} :
           includes(msg, word)

\* the request ended with every upstream call having failed transiently
AllAttemptsTransient ==
  pc = "done" /\ upReply.kind = "error" /\ Transient(upReply.error)

RECURSIVE SumSeq(_)
SumSeq(s) == IF s = <<>> THEN 0 ELSE Head(s) + SumSeq(Tail(s))

\* C1: one invocation of withRetry calls the upstream function at most 5
\* times, and exactly 5 times when every call fails with a transient error.
C1_AtMostFiveCalls ==
  /\ calls <= 5
  /\ AllAttemptsTransient => calls = 5

C1_Witness == AllAttemptsTransient /\ calls = 5

\* C2: when every attempt fails transiently the waits performed are exactly
\* 2000, 4000, 8000 and 16000 ms in that order, and no wait is performed
\* after the fifth failed attempt.
C2_FourWaitsThenGiveUp ==
  AllAttemptsTransient => waits = <<2000, 4000, 8000, 16000>>

\* C3: a failure leads to a backoff wait (followed by another upstream call
\* while attempts remain) if and only if it is transient; any other failure,
\* at whichever attempt, ends the request at once with that error, no wait
\* and no further upstream call, so that a non-transient failure of the
\* first attempt leaves exactly one attempt made.
C3_RetryIffTransient ==
  [][ /\ (pc = "awaitUpstream" /\ upReply'.kind = "error") =>
           IF Transient(upReply'.error)
           THEN /\ pc' = "sleeping"
                /\ Len(waits') = Len(waits) + 1
                /\ calls' = calls
                /\ res' = NoRes
           ELSE /\ pc' = "done"
                /\ waits' = waits
                /\ calls' = calls
                /\ caught' = upReply'.error
                /\ (Len(waits) = 0 => calls' = 1)
      /\ (pc = "sleeping" /\ calls < 5) => (pc' = "awaitUpstream" /\ calls' = calls + 1)
      /\ pc = "done" => calls' = calls
    ]_vars

C3_Witness ==
  /\ pc = "done"
  /\ upReply.kind = "error"
  /\ ~Transient(upReply.error)
  /\ calls = 3
  /\ waits = <<2000, 4000>>

\* C4: when withRetry exhausts all attempts, the error it throws is the
\* error of the last attempt, status and message unchanged.
C4_LastErrorRethrown ==
  (AllAttemptsTransient /\ calls = 5) => caught = upReply.error

C4_Witness ==
  /\ AllAttemptsTransient
  /\ calls = 5
  /\ caught = upReply.error
  /\ caught.status = Num(403)

\* C5: if the upstream call fails transiently k times (0 <= k <= 4) and then
\* succeeds, withRetry returns after exactly k waits, 2000 * 2^(n-1) ms for
\* the n-th, totalling 2000 * (2^k - 1) ms, and none of the upstream errors
\* is surfaced: a returned JSON object is answered with status 200.
C5_SuccessAfterKFailures ==
  upReply.kind = "ok" =>
    LET k == calls - 1
    IN  /\ k \in 0..4
        /\ waits = [n \in 1..k |-> 2000 * (2 ^ (n - 1))]
        /\ SumSeq(waits) = 2000 * ((2 ^ k) - 1)
        /\ caught \notin UpstreamErrors
        /\ (upReply.text.t = "json" /\ upReply.text.doc.t = "obj") =>
             (res.status = 200 /\ caught = Undefined)

C5_Witness ==
  /\ upReply.kind = "ok"
  /\ calls = 3
  /\ SumSeq(waits) = 6000
  /\ res.status = 200

\* C6: when retries are exhausted on transient upstream failures, however
\* they were classified transient, /api/analyze answers 429 with the
\* rate-limit message, and it answers 429 for no other kind of failure.
C6_Exhausted429 ==
  /\ (AllAttemptsTransient /\ calls = 5) =>
       (res.status = 429 /\ res.body = ErrorBody(Str(Str_RateLimit)))
  /\ res.status = 429 => (AllAttemptsTransient /\ calls = 5)

\* ------------------------------------------------------------------------
\* Properties of the response normaliser and of the request checks
\* ------------------------------------------------------------------------
\* the literal default of each defaultable field
LiteralDefault ==
  [data_summary |->
     Obj([detected_entities |-> Arr(<<>>), key_metrics |-> Arr(<<>>), relationships |-> Arr(<<>>)]),
   insights |-> Arr(<<>>),
   anomalies |-> Arr(<<>>),
   risk_analysis |-> Arr(<<>>),
   recommendations |-> Arr(<<>>),
   risk_heatmap |-> Obj([title |-> Str(Str_RiskDistribution), data |-> Arr(<<>>)]),
   operational_efficiency |-> Obj([title |-> Str(Str_OperationalEfficiency), metrics |-> Arr(<<>>)]),
   geographic_matrix |-> Obj([title |-> Str(Str_GeographicOpportunityMatrix), data |-> Arr(<<>>)])]

\* the request was answered 200 for an upstream text that is a JSON object
AnsweredObject ==
  /\ pc = "done"
  /\ res.status = 200
  /\ upReply.kind = "ok"
  /\ upReply.text.t = "json"
  /\ upReply.text.doc.t = "obj"

ParsedDoc == upReply.text.doc

Present(doc, field) == field \in DOMAIN doc.f

\* C7 as stated: for a parsed document with a defaultable field absent, the
\* answer has each absent defaultable field equal to its literal default and
\* every present field, whatever its value, exactly as parsed.
C7_PresentFieldsKept ==
  (AnsweredObject /\ \E d \in DOMAIN LiteralDefault : ~Present(ParsedDoc, d)) =>
    \A field \in AllFields :
      IF Present(ParsedDoc, field)
      THEN Get(res.body, field) = ParsedDoc.f[field]
      ELSE IF field \in DOMAIN LiteralDefault
      THEN Get(res.body, field) = LiteralDefault[field]
      ELSE ~Present(res.body, field)

\* C7 amended: for a parsed JSON object, each defaultable field that is
\* absent or holds a falsy value (null, false, 0, "") equals its literal
\* default in the answer; every defaultable field holding a truthy value and
\* every other field is exactly as parsed, absence included.
C7_FalsyOrAbsentDefaulted ==
  AnsweredObject =>
    /\ res.body.t = "obj"
    /\ DOMAIN res.body.f = (DOMAIN ParsedDoc.f) \cup (DOMAIN LiteralDefault)
    /\ \A field \in DOMAIN res.body.f :
         IF /\ field \in DOMAIN LiteralDefault
            /\ \/ ~Present(ParsedDoc, field)
               \/ ParsedDoc.f[field] \in {Null, Bool(FALSE), Num(0), Str(<<>>)}
         THEN res.body.f[field] = LiteralDefault[field]
         ELSE res.body.f[field] = ParsedDoc.f[field]

C7_Witness ==
  /\ AnsweredObject
  /\ DOMAIN ParsedDoc.f = {"insights"}
  /\ ParsedDoc.f["insights"] = Null
  /\ res.body.f["insights"] = Arr(<<>>)
  /\ res.body.f["risk_heatmap"] = Obj([title |-> Str(Str_RiskDistribution), data |-> Arr(<<>>)])

\* C8: in every result a successful /api/analyze hands out, each of
\* visualizations, insights, anomalies, risk_analysis and recommendations is
\* present, even when the upstream document omitted it.
C8_ArrayFieldsPresent ==
  AnsweredObject =>
    \A field \in {"visualizations", "insights", "anomalies", "risk_analysis", "recommendations"} :
      Present(res.body, field)

\* C9: when the upstream text is empty or does not parse as JSON, the
\* request is never answered with a success: the answer is an error status
\* with an {error} body, and no upstream call follows the one that returned
\* the text.
C9_MalformedTextFails ==
  (upReply.kind = "ok" /\ (upReply.text \in {Undefined, Str(<<>>)} \/ upReply.text.t = "str")) =>
    /\ pc = "done"
    /\ res.status >= 400
    /\ Get(res.body, "error").t = "str"
    /\ calls = Len(waits) + 1

C9_Witness ==
  /\ upReply.kind = "ok"
  /\ upReply.text = Str(<<"n", "o", "t", " ", "j", "s", "o", "n">>)
  /\ res.status = 500
  /\ calls = 2

\* a credential that yields no non-blank key: unset, empty or white space only
Blank(value) == value.t # "str" \/ \A k \in 1..Len(value.v) : value.v[k] \in WhiteSpace

\* C10: /api/analyze answers 400 when the dataset is missing and 500 when
\* neither COGAPI3 nor GEMINI_API_KEY yields a non-blank key, and in both
\* cases no upstream call is made.
C10_RejectedBeforeInvoke ==
  /\ (pc # "idle" /\ dataset \in {Undefined, Null}) =>
       (pc = "done" /\ res.status = 400 /\ calls = 0)
  /\ (pc # "idle" /\ dataset \notin {Undefined, Null}
        /\ Blank(env.COGAPI3) /\ Blank(env.GEMINI_API_KEY)) =>
       (pc = "done" /\ res.status = 500 /\ calls = 0)

C10_Witness ==
  /\ pc = "done"
  /\ dataset = Arr(<<>>)
  /\ env.COGAPI3 = Str(<<" ">>)
  /\ env.GEMINI_API_KEY = Undefined
  /\ res.status = 500
  /\ calls = 0

\* ------------------------------------------------------------------------
\* Properties of the error mapping of POST /api/analyze
\* ------------------------------------------------------------------------
\* the status an error carries: error.status, else error.response.status
CarriedStatus(error) ==
  IF Truthy(error.status) THEN error.status
  ELSE IF error.response.t = "obj" THEN error.response.f.status
  ELSE Undefined

LowerMessage(error) ==
  IF error.message.t = "str" THEN toLowerCase(error.message.v) ELSE <<>>

\* the failure is answered as an invalid credential: status 400 and a
\* message containing "api key not valid"
InvalidCredential(error) ==
  CarriedStatus(error) = Num(400) /\ includes(LowerMessage(error), Str_api_key_not_valid)

\* the handler caught a failure that is neither the exhaustion of the
\* retries nor an invalid credential
OtherFailure ==
  /\ pc = "done"
  /\ caught # Undefined
  /\ ~AllAttemptsTransient
  /\ ~InvalidCredential(caught)

\* C11 as stated: a failure that is neither rate-limit exhaustion nor an
\* invalid-credential detection is answered 500, whatever status the
\* upstream error carried.
C11_OtherFailure500 == OtherFailure => res.status = 500

\* C11 amended: a failure that is neither answered 429 (status 429, or a
\* message containing "rate exceeded" or "quota") nor an invalid-credential
\* detection is answered with the status the error carries (error.status,
\* else error.response.status), and with 500 only when it carries none.
C11_OtherFailureCarriedStatus ==
  (pc = "done" /\ caught # Undefined /\ ~InvalidCredential(caught)) =>
    \/ /\ res.status = 429
       /\ \/ CarriedStatus(caught) = Num(429)
          \/ includes(LowerMessage(caught), Str_rate_exceeded)
          \/ includes(LowerMessage(caught), Str_quota)
    \/ /\ CarriedStatus(caught) = Num(429) => res.status = 429
       /\ res.status = IF Truthy(CarriedStatus(caught)) THEN CarriedStatus(caught).v ELSE 500

C11_Witness ==
  /\ OtherFailure
  /\ caught.status = Num(403)
  /\ ~Transient(caught)
  /\ res.status = 403

\* ------------------------------------------------------------------------
\* Claims about the report store
\* ------------------------------------------------------------------------
\* the request of the latest /api/reports response named an identifier that
\* was stored before the step
DuplicatePosted ==
  /\ storeRes' # storeRes
  /\ storeRes'.route = "postReport"
  /\ \E k \in 1..Len(reports) : reports[k].id = storeRes'.id

\* C12: a POST /api/reports whose identifier is already stored fails, leaves
\* the stored record (owner, query, context, result, created_at) as it was,
\* and no two records carry the same identifier afterwards
C12_DuplicateRejected ==
  [][DuplicatePosted =>
       /\ storeRes'.status >= 400
       /\ reports' = reports
       /\ \A j, k \in 1..Len(reports') : reports'[j].id = reports'[k].id => j = k]_vars

\* a duplicate append by another owner with another payload was refused
\* by the primary key alone
C12_Witness ==
  /\ ~fkEnforced
  /\ storeRes.route = "postReport"
  /\ storeRes.status = 500
  /\ Len(reports) = 1
  /\ reports[1].id = storeRes.id
  /\ reports[1].user_id # storeRes.userId
  /\ reports[1].query = Query1

\* the latest /api/reports response answers a history read for a user id
HistoryRead == storeRes.route = "getReports" /\ Truthy(storeRes.userId)

\* C14: GET /api/reports?userId=u succeeds, every report it returns is owned
\* by u, and when u owns no report (whether or not u was ever seen) the
\* answer is the empty sequence
C14_OnlyOwnReports ==
  HistoryRead =>
    /\ storeRes.status = 200
    /\ \A n \in 1..Len(storeRes.body) : storeRes.body[n].user_id = storeRes.userId
    /\ (\A k \in 1..Len(reports) : reports[k].user_id # storeRes.userId) => storeRes.body = <<>>

\* both users own a report and the read of one of them returned one report
C14_Witness ==
  /\ HistoryRead
  /\ Len(reports) = 2
  /\ reports[1].user_id # reports[2].user_id
  /\ Len(storeRes.body) = 1

\* C15: no step of the server (append, refused append, history read,
\* sign-in that upserts a user) changes or removes a stored report
C15_ReportsImmutable ==
  [][\A k \in 1..Len(reports) : k <= Len(reports') /\ reports'[k] = reports[k]]_vars

\* the owner of a stored report has been upserted into users, a later append
\* was refused, and both reports are still there
C15_Witness ==
  /\ fkEnforced
  /\ Len(reports) = 2
  /\ reports[1].user_id = U1
  /\ U1 \in userIds(users)
  /\ flowRes["c1"].kind = "page"
  /\ storeRes.route = "postReport"
  /\ storeRes.status = 500

\* the server has answered a sign-in of browser c as user id u
SignedInAs(c, u) == flowRes[c].kind = "page" /\ flowRes[c].message.f.user.f.id = u

\* C19: a history read that returned reports of u, or an append that stored
\* a report owned by u, was requested by a caller signed in as u
C19_ReportsIsolated ==
  (/\ storeRes.route \in {"getReports", "postReport"}
   /\ storeRes.status = 200
   /\ storeRes.route = "getReports" => storeRes.body # <<>>)
    => SignedInAs(storeRes.caller, storeRes.userId)

\* the rows of table reports owned by the user of the latest history read
OwnRows == {k \in 1..Len(reports) : reports[k].user_id = storeRes.userId}

\* the row of table reports returned at position n of the latest history read
RowAt(n) == CHOOSE k \in OwnRows : reports[k].id = storeRes.body[n].id

C16_RoundTrip ==
  HistoryRead =>
    /\ storeRes.status = 200
    /\ \A n \in 1..Len(storeRes.body) : storeRes.body[n].result = codecX

\* a result with a nested object, a negative number and a string of
\* characters that need escaping came back
C16_Witness ==
  /\ HistoryRead
  /\ Len(storeRes.body) = 1
  /\ "forecast" \in DOMAIN codecX.f
  /\ codecX.f.forecast.f.title = Str(<<"a", "\"", "\\", "\n">>)
  /\ codecX.f.forecast.f.data.v[1].f.value = Num(-3)
  /\ storeRes.body[1].result = codecX

\* ------------------------------------------------------------------------
\* Claims about sign-in
\* ------------------------------------------------------------------------
\* C20: every answer of GET /api/auth/google/url carries a URL only when
\* APP_URL and GOOGLE_CLIENT_ID are both set, and is a 500 with an error and
\* no URL when either is missing, whichever call it is
C20_UrlOnlyWhenConfigured ==
  authRes.call > 0 =>
    /\ Get(authRes.body, "url") # Undefined =>
         /\ authRes.status = 200
         /\ Truthy(env.APP_URL)
         /\ Truthy(env.GOOGLE_CLIENT_ID)
    /\ (~Truthy(env.APP_URL) \/ ~Truthy(env.GOOGLE_CLIENT_ID)) =>
         /\ authRes.status = 500
         /\ Get(authRes.body, "error") # Undefined
         /\ Get(authRes.body, "url") = Undefined

\* the second call with a base URL and no client identifier is refused
\* like the first
C20_Witness ==
  /\ authRes.call = 2
  /\ env.APP_URL = Str(AppOrigin)
  /\ env.GOOGLE_CLIENT_ID = Undefined
  /\ authRes.status = 500
  /\ authRes.body = ErrorBody(Str(Str_ClientIdNotSet))

\* the hosts the application is expected at
ExpectedOrigins == {AppOrigin, LocalOrigin}

\* C17: handling a message whose origin is neither the application host nor
\* the local development host changes neither the signed-in user nor
\* localStorage, and fetches no history
C17_OnlyExpectedOrigins ==
  [][(event # NoEvent /\ event.origin \notin ExpectedOrigins)
       => (user' = user /\ localStorage' = localStorage /\ fetched' = fetched)]_vars

\* C18: the message of the callback page, with the user's id, name, email
\* and avatar, reaches only an opener of the application's own origin
C18_OnlyOwnOpener ==
  posted.kind = "delivered" => posted.to = AppOrigin

\* ------------------------------------------------------------------------
\* GET /auth/google/callback, one await at a time
\* ------------------------------------------------------------------------
\* the number of callback requests a browser makes
MaxAttempts == 2

\* the accounts a browser can sign in with at Google
Accounts == {U1, U2}

\* a variant of afterFailure in which the handler exchanges the code again
afterFailure_retry(cb) == [cb EXCEPT !.pc = "token"]

\* catch (error): the handler answers and returns
afterFailure(cb) == [cb EXCEPT !.pc = "done"]

\* the request arrives: if (!code) return res.status(400)...; otherwise the
\* handler runs up to await axios.post(".../token")
CallbackArrives(c, code) ==
  /\ callbacks[c].pc \in {"idle", "done"}
  /\ callbacks[c].attempts < MaxAttempts
  /\ IF ~Truthy(code)
     THEN /\ callbacks' = [callbacks EXCEPT ![c] =
                             [pc |-> "done", trace |-> <<>>, attempts |-> @.attempts + 1]]
          /\ flowRes' = [flowRes EXCEPT ![c] = TextResponse(400, Str_NoCodeProvided)]
     ELSE /\ callbacks' = [callbacks EXCEPT ![c] =
                             [pc |-> "token", trace |-> <<"code">>, attempts |-> @.attempts + 1]]
          /\ flowRes' = [flowRes EXCEPT ![c] = NoFlow]
  /\ UNCHANGED <<analyzeVars, authVars, codecVars, retryVars, clientVars,
                 users, reports, clock, fkEnforced, storeRes>>

\* the token request settles: the handler runs up to await axios.get(".../userinfo"),
\* or its catch block answers 500
TokenSettles(c, ok) ==
  /\ callbacks[c].pc = "token"
  /\ IF ok
     THEN /\ callbacks' = [callbacks EXCEPT ![c] =
                             [@ EXCEPT !.pc = "profile", !.trace = Append(@, "token")]]
          /\ UNCHANGED flowRes
     ELSE /\ callbacks' = [callbacks EXCEPT ![c] = afterFailure(@)]
          /\ flowRes' = [flowRes EXCEPT ![c] = TextResponse(500, Str_AuthenticationFailed)]
  /\ UNCHANGED <<analyzeVars, authVars, codecVars, retryVars, clientVars,
                 users, reports, clock, fkEnforced, storeRes>>

\* the userinfo request settles: the handler upserts the user and sends the
\* page in one synchronous block, or its catch block answers 500
ProfileSettles(c, ok, account) ==
  /\ callbacks[c].pc = "profile"
  /\ IF ok
     THEN LET googleUser == Profile(account, NameOf[c])
          IN  /\ users' = upsertUser(users, googleUser.id, googleUser.name,
                                     googleUser.email, googleUser.picture)
              /\ reports' = reportsAfterUpsert(reports, users, googleUser.id)
              /\ callbacks' = [callbacks EXCEPT ![c] =
                                 [@ EXCEPT !.pc = "done",
                                           !.trace = @ \o <<"profile", "upsert", "page">>]]
              /\ flowRes' = [flowRes EXCEPT ![c] = CallbackPage(googleUser)]
     ELSE /\ callbacks' = [callbacks EXCEPT ![c] = afterFailure(@)]
          /\ flowRes' = [flowRes EXCEPT ![c] = TextResponse(500, Str_AuthenticationFailed)]
          /\ UNCHANGED <<users, reports>>
  /\ UNCHANGED <<analyzeVars, authVars, codecVars, retryVars, clientVars,
                 clock, fkEnforced, storeRes>>

\* two browsers whose callback requests interleave at the awaits
NextCallback ==
  \/ \E c \in Callers : \E code \in {AuthCode, Undefined} : CallbackArrives(c, code)
  \/ \E c \in Callers : \E ok \in BOOLEAN : TokenSettles(c, ok)
  \/ \E c \in Callers : \E ok \in BOOLEAN : \E account \in Accounts : ProfileSettles(c, ok, account)

SpecCallback == InitStore /\ [][NextCallback]_vars

\* ------------------------------------------------------------------------
\* Claims about the callback
\* ------------------------------------------------------------------------
\* the row of table users a success page speaks of
RowOfPage(page) ==
  LET u == page.message.f.user.f
  IN  UserRow(u.id, u.name, u.email, u.avatar)

\* browser c completes a sign-in in this step
SignInCompletes(c) ==
  /\ callbacks[c].pc = "profile"
  /\ callbacks'[c].pc = "done"
  /\ flowRes'[c].kind = "page"

\* C21: however the sign-ins interleave, table users holds one row per
\* subject id; a sign-in that completes leaves under its id exactly the row
\* with its own name, email and avatar and leaves the rows of the other ids
\* alone, and no other step changes the table: the row of an id is that of
\* the sign-in whose upsert ran last, as if that sign-in had run alone.
C21_LastUpsertWins ==
  [][/\ Cardinality(userIds(users')) = Cardinality(users')
     /\ \A c \in Callers :
          SignInCompletes(c) =>
            LET mine == RowOfPage(flowRes'[c])
            IN  /\ {row \in users' : row.id = mine.id} = {mine}
                /\ {row \in users' : row.id # mine.id} = {row \in users : row.id # mine.id}
     /\ (\A c \in Callers : ~SignInCompletes(c)) => users' = users]_vars

\* both browsers have signed in with the same account under different names,
\* and one row is left
C21_Witness ==
  /\ \A c \in Callers : flowRes[c].kind = "page" /\ RowOfPage(flowRes[c]).id = U1
  /\ RowOfPage(flowRes["c1"]) # RowOfPage(flowRes["c2"])
  /\ Cardinality(users) = 1

\* the steps of a sign-in attempt, in order
SignInSteps == <<"code", "token", "profile", "upsert", "page">>

IsPrefix(s, t) == Len(s) <= Len(t) /\ s = SubSeq(t, 1, Len(s))

\* the callback request of browser c has been answered 400 or 500
AttemptFailed(c) == flowRes[c].kind = "text" /\ flowRes[c].status \in {400, 500}

\* C25: the steps a callback request has taken are an initial part of code
\* received, token exchanged, profile resolved, user upserted, page sent, each
\* at most once; a request answered 400 or 500 is over (nothing of it is
\* pending), has neither upserted a user nor sent the page, and the step
\* that answers it leaves table users as it was.
C25_StepsInOrder ==
  [][\A c \in Callers :
       /\ IsPrefix(callbacks'[c].trace, SignInSteps)
       /\ AttemptFailed(c)' =>
            /\ callbacks'[c].pc = "done"
            /\ \A n \in 1..Len(callbacks'[c].trace) :
                 callbacks'[c].trace[n] \notin {"upsert", "page"}
            /\ (callbacks'[c] # callbacks[c] => users' = users)
       /\ (flowRes'[c].kind = "page" /\ callbacks'[c] # callbacks[c]) =>
            callbacks'[c].trace = SignInSteps]_vars

\* one request failed at the profile and wrote no user, the other was
\* refused for its missing code
C25_Witness ==
  /\ AttemptFailed("c1") /\ flowRes["c1"].status = 500
  /\ callbacks["c1"].trace = <<"code", "token">>
  /\ AttemptFailed("c2") /\ flowRes["c2"].status = 400
  /\ users = {}

\* ------------------------------------------------------------------------
\* Claims about the owner of a report
\* ------------------------------------------------------------------------
\* the user ids a request body of POST /api/reports can carry: the two
\* subjects, signed in or not, and JSON null
PostedOwners == {U1, U2, Null}

\* a client saves a report for the user id it sends
SaveOwned(k, userId) ==
  /\ k <= MaxReports
  /\ SaveReport("c1", k, userId, <<Query1, Context1, Result1>>)

\* two accounts signing in, clients saving reports on a build that enforces
\* foreign keys
InitOwners ==
  /\ InitStore
  /\ fkEnforced = TRUE

NextOwners ==
  \/ \E c \in Callers : GoogleCallback(c, AuthCode, "ok", NameOf[c])
  \/ \E k \in 1..MaxReports : \E userId \in PostedOwners : SaveOwned(k, userId)
  \/ \E userId \in {U1, U2} : GetReports("c1", userId)

SpecOwners == InitOwners /\ [][NextOwners]_vars

\* C24: every stored report has a non-null owning user id that is the id of
\* a row of table users.
C24_ReportsOwned ==
  \A k \in 1..Len(reports) :
    /\ reports[k].user_id # Null
    /\ reports[k].user_id \in userIds(users)

\* ------------------------------------------------------------------------
\* Two concurrent requests to POST /api/analyze
\* ------------------------------------------------------------------------
\* the failures the upstream answers a call of these requests with: two that
\* withRetry retries and one that it rethrows
RetryErrors ==
  { ErrorObj(Num(503), Undefined, Str(<<"U", "n", "a", "v", "a", "i", "l", "a", "b", "l", "e">>)),
    ErrorObj(Num(403), Undefined, Str(<<"Q", "u", "o", "t", "a">>)),
    ErrorObj(Num(403), Undefined, Str(<<"r", "a", "t", "e", " ", "l", "i", "m", "i", "t">>)) }

\* a variant of slotOf in which i and lastError are variables of the module,
\* shared by every call of withRetry
slotOf_shared(r) == "r1"

\* let lastError and let i are locals of the call of withRetry: every
\* request has its own
slotOf(r) == r

\* a variant of answer in which the failure is dropped without a response
answer_dropped(rq, status) == [rq EXCEPT !.pc = "done"]

\* res.json(...) / res.status(...).json(...): the handler sends its response and ends
answer(rq, status) == [rq EXCEPT !.pc = "done", !.status = status, !.sent = @ + 1]

\* request r arrives with a data set and a key: withRetry is entered and
\* calls fn for the first time
RequestArrives(r) ==
  /\ requests[r].pc = "idle"
  /\ requests' = [requests EXCEPT ![slotOf(r)].i = 0,
                                  ![slotOf(r)].lastError = Undefined,
                                  ![r].calls = 1,
                                  ![r].pc = "calling"]
  /\ UNCHANGED <<analyzeVars, storeVars, authVars, codecVars, callbackVars, clientVars>>

\* the upstream call of request r fails: the catch block of withRetry, and
\* for an error it rethrows the catch block of the handler
CallFails(r, error) ==
  /\ requests[r].pc = "calling"
  /\ IF isRetryable(error)
     THEN requests' =
            [requests EXCEPT ![slotOf(r)].lastError = recordError(@, error),
                             ![r].waits = Append(@, delayOf(requests[slotOf(r)].i)),
                             ![r].pc = "sleeping"]
     ELSE requests' = [requests EXCEPT ![r] = answer(@, catchResponse(error, env).status)]
  /\ UNCHANGED <<analyzeVars, storeVars, authVars, codecVars, callbackVars, clientVars>>

\* the backoff timer of request r fires: i++, then the next call of fn, or
\* throw lastError after the loop and the catch block of the handler
BackoffEnds(r) ==
  /\ requests[r].pc = "sleeping"
  /\ LET n == requests[slotOf(r)].i + 1
     IN  IF loopContinues(n)
         THEN requests' = [requests EXCEPT ![slotOf(r)].i = n,
                                           ![r].calls = @ + 1,
                                           ![r].pc = "calling"]
         ELSE requests' =
                [requests EXCEPT ![slotOf(r)].i = n,
                                 ![r] = answer(@, catchResponse(requests[slotOf(r)].lastError,
                                                                env).status)]
  /\ UNCHANGED <<analyzeVars, storeVars, authVars, codecVars, callbackVars, clientVars>>

\* the upstream call of request r returns a well-formed document: withRetry
\* returns and the handler answers 200
CallReturns(r) ==
  /\ requests[r].pc = "calling"
  /\ requests' = [requests EXCEPT ![r] = answer(@, 200)]
  /\ UNCHANGED <<analyzeVars, storeVars, authVars, codecVars, callbackVars, clientVars>>

\* the upstream call of request r settles
CallSettles(r) ==
  \/ \E error \in RetryErrors : CallFails(r, error)
  \/ CallReturns(r)

InitRetry ==
  /\ InitStore
  /\ fkEnforced = TRUE

NextRetry ==
  \/ \E r \in Requests : RequestArrives(r)
  \/ \E r \in Requests : \E error \in RetryErrors : CallFails(r, error)
  \/ \E r \in Requests : BackoffEnds(r)
  \/ \E r \in Requests : CallReturns(r)

SpecRetry == InitRetry /\ [][NextRetry]_vars

\* every upstream call returns or fails, and the event loop of Node runs
\* every timer that is due
SpecRetryFair ==
  /\ SpecRetry
  /\ \A r \in Requests : WF_vars(CallSettles(r)) /\ WF_vars(BackoffEnds(r))

\* ------------------------------------------------------------------------
\* Claims about concurrent requests
\* ------------------------------------------------------------------------
\* the waits of request r are the first delays of the schedule, one per
\* failed call, and its calls are one more than its waits until it gives up
OwnSchedule(rq) ==
  /\ Len(rq.waits) <= maxRetries
  /\ \A n \in 1..Len(rq.waits) : rq.waits[n] = delayOf(n - 1)
  /\ rq.pc = "calling" => rq.calls = Len(rq.waits) + 1 /\ rq.i = Len(rq.waits)
  /\ rq.pc = "sleeping" => rq.calls = Len(rq.waits) /\ rq.i = Len(rq.waits) - 1
  /\ rq.pc = "done" => rq.calls \in {Len(rq.waits), Len(rq.waits) + 1}

\* C26: concurrent requests run independent retry sequences: a step of one
\* request changes nothing of the other (its counter, last error, waits,
\* calls and response), and every request's waits and calls follow the
\* schedule 2000, 4000, ... counted from its own first call.
C26_IndependentRetries ==
  [][/\ \A r \in Requests : OwnSchedule(requests'[r])
     /\ \A r, q \in Requests :
          (r # q /\ requests'[r] # requests[r]) => requests'[q] = requests[q]]_vars

\* one request is in its third backoff while the other, which arrived later
\* and failed once, is in its first
C26_Witness ==
  /\ requests["r1"].pc = "sleeping" /\ requests["r1"].waits = <<2000, 4000, 8000>>
  /\ requests["r2"].pc = "sleeping" /\ requests["r2"].waits = <<2000>>
  /\ requests["r1"].lastError # requests["r2"].lastError

\* C27: when every upstream call settles and every timer fires, each request
\* that arrived is eventually answered, and no request is answered twice.
C27_EveryRequestAnswered ==
  /\ \A r \in Requests : [](requests[r].sent <= 1)
  /\ \A r \in Requests :
       (requests[r].pc # "idle") ~> (requests[r].pc = "done" /\ requests[r].sent = 1)

\* a request was answered after withRetry used up its five attempts
C27_Witness ==
  /\ requests["r1"].pc = "done" /\ requests["r1"].sent = 1
  /\ requests["r1"].calls = maxRetries /\ Len(requests["r1"].waits) = maxRetries
  /\ requests["r2"].pc = "done" /\ requests["r2"].status = 200

\* ------------------------------------------------------------------------
\* The application: runAnalysis, fetchHistory, sign-in and sign-out
\* ------------------------------------------------------------------------
Str_HighDemand ==
  <<"T", "h", "e", " ", "I", "n", "t", "e", "l", "l", "i", "g", "e", "n", "c", "e", " ", "E", "n", "g", "i", "n", "e", " ", "i", "s", " ", "c", "u", "r", "r", "e", "n", "t", "l", "y", " ", "e", "x", "p", "e", "r", "i", "e", "n", "c", "i", "n", "g", " ", "h", "i", "g", "h", " ", "d", "e", "m", "a", "n", "d", ".", " ", "P", "l", "e", "a", "s", "e", " ", "w", "a", "i", "t", " ", "3", "0", "-", "6", "0", " ", "s", "e", "c", "o", "n", "d", "s", " ", "a", "n", "d", " ", "t", "r", "y", " ", "a", "g", "a", "i", "n", ".">>

Str_EngineFailed ==
  <<"I", "n", "t", "e", "l", "l", "i", "g", "e", "n", "c", "e", " ", "E", "n", "g", "i", "n", "e", " ", "f", "a", "i", "l", "e", "d", " ", "t", "o", " ", "p", "r", "o", "c", "e", "s", "s", " ", "d", "a", "t", "a", ".">>

Str_UnexpectedError ==
  <<"A", "n", " ", "u", "n", "e", "x", "p", "e", "c", "t", "e", "d", " ", "e", "r", "r", "o", "r", " ", "o", "c", "c", "u", "r", "r", "e", "d", ".">>

Str_UnexpectedDuring ==
  <<"A", "n", " ", "u", "n", "e", "x", "p", "e", "c", "t", "e", "d", " ", "e", "r", "r", "o", "r", " ", "o", "c", "c", "u", "r", "r", "e", "d", " ", "d", "u", "r", "i", "n", "g", " ", "a", "n", "a", "l", "y", "s", "i", "s", ".">>

Str_FailedToFetch ==
  <<"F", "a", "i", "l", "e", "d", " ", "t", "o", " ", "f", "e", "t", "c", "h">>

\* the calls of runAnalysis a browser makes
MaxRuns == 2

\* the milliseconds that pass
MaxNow == 1

\* the answers fetch('/api/analyze') settles with: a document, the failures
\* the server answers with, a failure page of a proxy, no answer at all
AnalyzeReplies ==
  { [kind |-> "http", status |-> 200, isJson |-> TRUE, body |-> Result1],
    [kind |-> "http", status |-> 500, isJson |-> TRUE,
     body |-> ErrorBody(Str(Str_FailedToAnalyze))],
    [kind |-> "http", status |-> 429, isJson |-> TRUE, body |-> ErrorBody(Str(Str_RateLimit))],
    [kind |-> "http", status |-> 503, isJson |-> TRUE,
     body |-> ErrorBody(Str(<<"R", "a", "t", "e", " ", "E", "x", "c", "e", "e", "d", "e", "d">>))],
    [kind |-> "http", status |-> 502, isJson |-> FALSE, text |-> <<>>],
    [kind |-> "network"] }

\* response.ok
isOk(reply) == reply.status >= 200 /\ reply.status <= 299

\* json = await response.json(), or { error: text || "An unexpected error occurred." }
jsonOf(reply) ==
  IF reply.isJson
  THEN reply.body
  ELSE Obj([error |-> JsOr(Str(reply.text), Str(Str_UnexpectedError))])

\* the message of the Error thrown for a response that is not ok
failureMessage(reply) ==
  LET error == Get(jsonOf(reply), "error")
  IN  IF \/ reply.status = 429
         \/ error.t = "str" /\ includes(toLowerCase(error.v), Str_rate_exceeded)
      THEN Str(Str_HighDemand)
      ELSE JsOr(error, Str(Str_EngineFailed))

\* catch (err): setError(err.message || "An unexpected error occurred during analysis.")
shownError(message) == JsOr(message, Str(Str_UnexpectedDuring))

\* a variant of resultOnReply that displays whatever document came
resultOnReply_always(current, reply) == jsonOf(reply)

\* result after the reply: setResult(json) is reached only when response.ok
resultOnReply(current, reply) == IF isOk(reply) THEN jsonOf(reply) ELSE current

\* a variant of errorAfterSave that shows a failed save to the user
errorAfterSave_shown(current, failed) ==
  IF failed THEN Str(<<"F", "a", "i", "l", "e", "d", " ", "t", "o", " ", "s", "a", "v", "e">>)
  ELSE current

\* error after the save settled: the inner catch only logs, and the response
\* of the save is not looked at
errorAfterSave(current, failed) == current

\* a variant of savedUserId that saves the report without its owner
savedUserId_none(u) == Null

\* userId: user.id in the body of the save
savedUserId(u) == Get(u, "id")

\* finally { setIsAnalyzing(false) }: runAnalysis is over
runEnds(a) == [a EXCEPT !.isAnalyzing = FALSE, !.run = NoRun]

\* a data set is loaded (file upload or sample data)
LoadData ==
  /\ ~app.data
  /\ app' = [app EXCEPT !.data = TRUE]
  /\ UNCHANGED <<analyzeVars, storeVars, authVars, codecVars, callbackVars, retryVars, now>>

\* runAnalysis up to await fetch('/api/analyze'): the button is disabled
\* while isAnalyzing; the closure holds the user of the render it was made in
runAnalysis ==
  /\ app.data
  /\ ~app.isAnalyzing
  /\ app.runs < MaxRuns
  /\ app' = [app EXCEPT !.isAnalyzing = TRUE, !.error = Null,
                        !.run = [pc |-> "analyze", user |-> user],
                        !.runs = @ + 1]
  /\ UNCHANGED <<analyzeVars, storeVars, authVars, codecVars, callbackVars, retryVars, now>>

\* fetch('/api/analyze') settles: runAnalysis up to await fetch('/api/reports'),
\* or to its end
AnalyzeSettles(reply) ==
  /\ app.run.pc = "analyze"
  /\ UNCHANGED <<analyzeVars, storeVars, authVars, codecVars, callbackVars, retryVars, now>>
  /\ IF reply.kind = "network"
     THEN app' = runEnds([app EXCEPT !.error = shownError(Str(Str_FailedToFetch))])
     ELSE IF ~isOk(reply)
     THEN app' = runEnds([app EXCEPT !.result = resultOnReply(@, reply),
                                     !.error = shownError(failureMessage(reply))])
     ELSE IF Truthy(app.run.user)
     THEN app' = [app EXCEPT !.result = resultOnReply(@, reply),
                             !.analysed = @ + 1,
                             !.run = [pc |-> "save", user |-> app.run.user,
                                      json |-> jsonOf(reply), id |-> ReportId(now)]]
     ELSE app' = runEnds([app EXCEPT !.result = resultOnReply(@, reply)])

\* fetch('/api/reports', POST) settles: the server handled the request, or
\* the request never arrived; then fetchHistory(user.id) is called (not
\* awaited) unless fetch rejected, and runAnalysis ends
SaveSettles(served) ==
  /\ app.run.pc = "save"
  /\ UNCHANGED <<analyzeVars, authVars, codecVars, callbackVars, retryVars, now,
                 users, clock, fkEnforced, flowRes>>
  /\ IF served
     THEN /\ postReportHandler("c1", app.run.id, savedUserId(app.run.user),
                               Query1, Context1, app.run.json)
          /\ app' = runEnds([app EXCEPT
                               !.fetches = @ \cup {Get(app.run.user, "id")},
                               !.error = errorAfterSave(@, storeRes'.status # 200),
                               !.failedSaves = IF storeRes'.status # 200 THEN @ + 1 ELSE @])
     ELSE /\ UNCHANGED <<reports, storeRes>>
          /\ app' = runEnds([app EXCEPT !.error = errorAfterSave(@, TRUE),
                                        !.failedSaves = @ + 1])

\* the request of fetchHistory(userId) settles: setHistory(data) when the
\* server answered ok; a rejection is logged
HistorySettles(userId, served) ==
  /\ userId \in app.fetches
  /\ UNCHANGED <<analyzeVars, authVars, codecVars, callbackVars, retryVars, now,
                 users, clock, fkEnforced, flowRes>>
  /\ IF served
     THEN /\ getReportsHandler("c1", userId)
          /\ app' = [app EXCEPT !.fetches = @ \ {userId},
                                !.history = IF storeRes'.status = 200
                                            THEN storeRes'.body ELSE @]
     ELSE /\ UNCHANGED <<reports, storeRes>>
          /\ app' = [app EXCEPT !.fetches = @ \ {userId}]

\* a millisecond passes
Millisecond ==
  /\ now < MaxNow
  /\ now' = now + 1
  /\ UNCHANGED <<analyzeVars, storeVars, authVars, codecVars, callbackVars, retryVars, app>>

\* the second browser, signed in with its own account, saves the report of
\* an analysis of its own under 'rep_' + Date.now()
OtherSaves ==
  /\ flowRes["c2"].kind = "page"
  /\ ~violatesPrimaryKey(reports, ReportId(now))
  /\ PostReport("c2", ReportId(now), AccountOf["c2"], Query2, Context2, Result1)

InitClient ==
  /\ InitStore
  /\ fkEnforced = TRUE

\* the application in the first browser, the server, and a second browser
NextClient ==
  \/ \E c \in Callers : GoogleCallback(c, AuthCode, "ok", NameOf[c])
  \/ PageRuns(AppOrigin)
  \/ handleMessage
  \/ handleSignOut
  \/ LoadData
  \/ runAnalysis
  \/ \E reply \in AnalyzeReplies : AnalyzeSettles(reply)
  \/ \E served \in BOOLEAN : SaveSettles(served)
  \/ \E userId \in Accounts : \E served \in BOOLEAN : HistorySettles(userId, served)
  \/ Millisecond
  \/ OtherSaves

SpecClient == InitClient /\ [][NextClient]_vars

\* ------------------------------------------------------------------------
\* Claims about the application
\* ------------------------------------------------------------------------
\* the first browser's save request is handled by the server in this step
OwnSaveHandled ==
  /\ app.run.pc = "save"
  /\ app'.run.pc = "idle"
  /\ storeRes'.route = "postReport"
  /\ storeRes'.caller = "c1"
  /\ (storeRes' # storeRes \/ reports' # reports)

\* C22: the server stores a report of the application only for a run of
\* runAnalysis that had a signed-in user, under that user's id; and when the
\* save settles, whether it was stored, rejected or never arrived, the
\* displayed result is left as it is and no error is shown.
C22_SaveFailureSwallowed ==
  [][/\ (app'.run.pc = "save" /\ app.run.pc # "save") =>
          (Truthy(app'.run.user) /\ app'.result = app'.run.json /\ app'.error = Null)
     /\ (reports' # reports /\ storeRes'.caller = "c1") =>
          /\ OwnSaveHandled
          /\ Truthy(app.run.user)
          /\ reports'[Len(reports')].user_id = Get(app.run.user, "id")
     /\ (app.run.pc = "save" /\ app'.run.pc = "idle") =>
          /\ app'.result = app.result
          /\ app'.error = Null
          /\ ~app'.isAnalyzing]_vars

\* a save failed, the result of the analysis is displayed, no error is shown
C22_Witness ==
  /\ app.failedSaves > 0
  /\ app.run.pc = "idle"
  /\ app.result = Result1
  /\ app.error = Null
  /\ ~app.isAnalyzing

\* the reports GET /api/reports?userId=u1 returns at this moment
Listed == selectReports(reports, U1)

\* C23 as stated: after n >= 1 successful analyses of the signed-in user u1,
\* GET /api/reports?userId=u1 returns exactly n reports.
C23_ExactlyN ==
  (app.analysed >= 1 /\ app.run.pc # "save") => Len(Listed) = app.analysed

\* C23, amended: after n successful analyses of the signed-in user u1 (n at
\* most 10), GET /api/reports?userId=u1 returns one report for each analysis
\* whose save the server accepted: n less the saves that failed (and the one
\* still in flight), all owned by u1.
C23_OnePerAcceptedSave ==
  /\ \A k \in 1..Len(Listed) : Listed[k].user_id = U1
  /\ Len(Listed) + app.failedSaves + (IF app.run.pc = "save" THEN 1 ELSE 0) = app.analysed

\* two analyses succeeded, one of the two saves failed, one report is listed
C23_Witness ==
  /\ app.analysed = 2
  /\ app.failedSaves = 1
  /\ app.run.pc = "idle"
  /\ Len(Listed) = 1

\* C28: no save is rejected because its identifier 'rep_' + Date.now() is
\* already the identifier of a stored report.
C28_NoDuplicateRejected ==
  ~(/\ storeRes.route = "postReport"
    /\ storeRes.status = 500
    /\ violatesPrimaryKey(reports, storeRes.id))

\* the user a run of runAnalysis in progress was started for
RunUser == IF app.run.pc = "idle" THEN Null ELSE app.run.user

\* C29: while nobody is signed in, history stays empty, the server handles no
\* save of the application, no history request of the application is
\* answered, and no run of runAnalysis that was started for a user displays
\* its result.
C29_NothingAfterSignOut ==
  [][(user = Null /\ user' = Null) =>
       /\ app'.history = <<>>
       /\ ~OwnSaveHandled
       /\ (storeRes' # storeRes => storeRes'.caller # "c1")
       /\ (Truthy(RunUser) => app'.result = Null)]_vars

\* /api/analyze answers the run of runAnalysis with a status that is not ok
AnalyzeFails(reply) ==
  /\ reply.kind = "http"
  /\ ~isOk(reply)
  /\ AnalyzeSettles(reply)

\* C30: when /api/analyze answers with a non-success status, runAnalysis
\* leaves the displayed result, the history and the data as they are, sends
\* neither a save nor a history request, sets the error message and clears
\* isAnalyzing.
C30_FailureLeavesResult ==
  [][\A reply \in AnalyzeReplies :
       AnalyzeFails(reply) =>
         /\ app'.result = app.result
         /\ app'.history = app.history
         /\ app'.data = app.data
         /\ app'.fetches = app.fetches
         /\ app'.run = NoRun
         /\ <<reports, storeRes, user, localStorage>>' = <<reports, storeRes, user, localStorage>>
         /\ app'.error # Null /\ Truthy(app'.error)
         /\ ~app'.isAnalyzing]_vars

\* a second analysis failed for high demand while the result of the first
\* stays displayed
C30_Witness ==
  /\ app.error = Str(Str_HighDemand)
  /\ app.result = Result1
  /\ app.run.pc = "idle"
  /\ ~app.isAnalyzing
  /\ app.runs = 2

====
